---- MODULE Spec2Model ----
(***************************************************************************)
(* Model of src/src/api/controllers/chat.ts: the vendor-stream transcoders *)
(* (receiveStream / createTransStream), the PassThrough output stream they *)
(* write to, and the retry envelope (createCompletion /                    *)
(* createCompletionStream) with its HTTP/2 session.                        *)
(*                                                                         *)
(* Text is a sequence of UTF-16 code units, one string per unit.  ASCII    *)
(* units are written as themselves; the other units used are               *)
(*   "zh1", "zh2"  two CJK characters                                      *)
(*   "FFFD"        the replacement character U+FFFD                        *)
(*   "nt"          a unit of the moderation notice                         *)
(*   "sf"          a unit of the error-code suffix text                    *)
(***************************************************************************)
EXTENDS Integers, Sequences, FiniteSets, TLC

(* ------------------------------ bounds --------------------------------- *)
\* vendor events delivered to one transcoder before the transport closes
MaxEvents == 3
\* files referenced by the last message of a request
MaxFiles == 2
\* events one image stream delivers
MaxImageEvents == 2
\* pieces a text handed to the URL normalisation is made of
MaxPieces == 4
\* progress messages one polling of a video task reports
MaxProgress == 2

(* ----------------------------- constants ------------------------------- *)
MAX_RETRY_COUNT == 3
RETRY_DELAY == 5000
\* length of the moderation notice and of the text before the error code
NOTICE_LEN == 23
ERROR_PREFIX_LEN == 16
\* pollDigitalPeopleTask: maxAttempts, pollInterval, initialDelay
POLL_MAX_ATTEMPTS == 180
POLL_INTERVAL == 2000
POLL_INITIAL_DELAY == 60000
\* pollDigitalPeopleTaskWithProgress: maxAttempts, pollInterval, initialDelay
PROGRESS_MAX_ATTEMPTS == 120
PROGRESS_POLL_INTERVAL == 5000
PROGRESS_INITIAL_DELAY == 30000
\* timeout of one secResult/batch request of uploadFile
SCAN_REQUEST_TIMEOUT == 15000
\* the time uploadFile allows its content-safety scan
SCAN_TIME_LIMIT == 120000

(* --------------------------- string helpers ---------------------------- *)
Min(a, b) == IF a < b THEN a ELSE b
Max(a, b) == IF a < b THEN b ELSE a

\* String.prototype.indexOf for the single character U+FFFD: 0-based, -1 if absent
IndexOfRepl(text) ==
  IF \E i \in 1..Len(text) : text[i] = "FFFD"
    THEN (CHOOSE i \in 1..Len(text) :
            text[i] = "FFFD" /\ \A j \in 1..(i-1) : text[j] # "FFFD") - 1
    ELSE -1

\* String.prototype.substring(start, end): both clamped to [0, length],
\* swapped when start > end, 0-based half-open
Substring(text, start, end) ==
  LET s == Min(Max(start, 0), Len(text))
      e == Min(Max(end, 0), Len(text))
      lo == Min(s, e)
      hi == Max(s, e)
  IN SubSeq(text, lo + 1, hi)

\* the units of the model alphabet in the classes of the URL pattern
Letters == {"h", "t", "p", "s", "c", "n", "k", "f", "E"}
Digits == {"1"}
\* \w, for the word boundary \b
WordChars == Letters \cup Digits
\* [-a-zA-Z0-9@:%._\+~#=]
HostClass == Letters \cup Digits \cup {":", ".", "=", "#"}
\* [-a-zA-Z0-9@:%_\+.~#?&//=\,]
TailClass == Letters \cup Digits \cup {":", ".", "=", "?", "/", "#"}

HasAt(text, i, lit) ==
  /\ i + Len(lit) - 1 <= Len(text)
  /\ SubSeq(text, i, i + Len(lit) - 1) = lit
AllIn(text, from, to, class) == \A j \in from..to : text[j] \in class
MaxOf(S) == CHOOSE x \in S : \A y \in S : y <= x

\* index of the last unit of the match of
\*   /https?:\/\/[-a-zA-Z0-9@:%._\+~#=]{2,256}\.[a-z]{2,6}\b([-a-zA-Z0-9@:%_\+.~#?&//=\,]*)/gi
\* that starts at unit i of text, 0 if there is none (greedy, with backtracking)
UrlMatchEnd(text, i) ==
  LET q == IF HasAt(text, i, <<"h", "t", "t", "p", "s", ":", "/", "/">>) THEN i + 8
           ELSE IF HasAt(text, i, <<"h", "t", "t", "p", ":", "/", "/">>) THEN i + 7
           ELSE 0
      Fits(n1, n2) ==
        /\ q + n1 + n2 <= Len(text)
        /\ AllIn(text, q, q + n1 - 1, HostClass)
        /\ text[q + n1] = "."
        /\ AllIn(text, q + n1 + 1, q + n1 + n2, Letters)
        /\ (q + n1 + n2 = Len(text) \/ text[q + n1 + n2 + 1] \notin WordChars)
      hosts == {n1 \in 2..Min(256, Len(text)) : \E n2 \in 2..6 : Fits(n1, n2)}
  IN IF q = 0 THEN 0
     ELSE IF hosts = {} THEN 0
     ELSE LET n1 == MaxOf(hosts)
              n2 == MaxOf({n \in 2..6 : Fits(n1, n)})
              e0 == q + n1 + n2
              more == {k \in 0..(Len(text) - e0) : AllIn(text, e0 + 1, e0 + k, TailClass)}
          IN e0 + MaxOf(more)

\* index of the first unit of text at or after from that is in set, Len + 1 if none
FirstIn(text, from, set) ==
  LET hits == {j \in from..Len(text) : text[j] \in set}
  IN IF hits = {} THEN Len(text) + 1
     ELSE CHOOSE j \in hits : \A k \in hits : j <= k

\* new URL(url) for a match of the URL pattern over the model alphabet (lower
\* case, no credentials, no dot segments, nothing to percent-encode): the host
\* ends at the first ":", the authority at the first "/", "?" or "#", the
\* path at the first "?" or "#", the query at the first "#"
UrlParts(url) ==
  LET a0 == IF url[5] = "s" THEN 9 ELSE 8
      aEnd == FirstIn(url, a0, {"/", "?", "#"})
      authority == SubSeq(url, a0, aEnd - 1)
      colon == FirstIn(authority, 1, {":"})
      pEnd == FirstIn(url, aEnd, {"?", "#"})
      fStart == FirstIn(url, aEnd, {"#"})
  IN [scheme |-> SubSeq(url, 1, a0 - 1),
      host |-> SubSeq(authority, 1, colon - 1),
      port |-> SubSeq(authority, colon + 1, Len(authority)),
      path |-> SubSeq(url, aEnd, pEnd - 1),
      query |-> SubSeq(url, pEnd, fStart - 1),
      fragment |-> SubSeq(url, fStart, Len(url))]

\* new URL(url) throws a TypeError: the host is empty or the port is not a number
UrlInvalid(url) ==
  LET u == UrlParts(url)
  IN u.host = <<>> \/ \E j \in 1..Len(u.port) : u.port[j] \notin Digits

UrlWithSearch(url) ==
  LET u == UrlParts(url)
  IN u.scheme \o u.host \o (IF u.port = <<>> THEN <<>> ELSE <<":">> \o u.port)
       \o (IF u.path = <<>> THEN <<"/">> ELSE u.path) \o u.query \o u.fragment

\* urlObj = new URL(url); urlObj.search = ""; urlObj.toString(): the query is
\* dropped, an empty port loses its colon, an empty path is serialised as "/"
UrlWithoutSearch(url) ==
  LET u == UrlParts(url)
  IN u.scheme \o u.host \o (IF u.port = <<>> THEN <<>> ELSE <<":">> \o u.port)
       \o (IF u.path = <<>> THEN <<"/">> ELSE u.path) \o u.fragment

\* chunk.replace(<URL pattern>, (url) => ...), from unit i on
RECURSIVE ReplaceUrlsFrom(_, _)
ReplaceUrlsFrom(text, i) ==
  IF i > Len(text) THEN <<>>
  ELSE LET e == UrlMatchEnd(text, i)
       IN IF e = 0 THEN <<text[i]>> \o ReplaceUrlsFrom(text, i + 1)
          ELSE UrlWithoutSearch(SubSeq(text, i, e)) \o ReplaceUrlsFrom(text, e + 1)

StripUrlQueries(chunk) == ReplaceUrlsFrom(chunk, 1)

(* ------------------------- vendor event payload ------------------------ *)
\* one element of result.contents
Part(ct, role, content, status) ==
  [contentType |-> ct, role |-> role, content |-> content, isString |-> TRUE,
   status |-> status]

\* (result.contents || []).reduce(...): text of the parts that are text or
\* text2image and are assistant-role or string-valued
RECURSIVE PartsText(_)
PartsText(contents) ==
  IF contents = <<>> THEN <<>>
  ELSE LET part == Head(contents)
           keep == /\ part.contentType \in {"text", "text2image"}
                   /\ (part.role = "assistant" \/ part.isString)
       IN (IF keep THEN part.content ELSE <<>>) \o PartsText(Tail(contents))

RawChunkResend(text, emittedLen) ==
  LET exceptCharIndex == IndexOfRepl(text)
  IN Substring(text, 0, IF exceptCharIndex = -1 THEN Len(text) ELSE exceptCharIndex)

\* text.substring(exceptCharIndex != -1 ? Math.min(len, exceptCharIndex) : len,
\*                exceptCharIndex == -1 ? text.length : exceptCharIndex)
RawChunk(text, emittedLen) ==
  LET exceptCharIndex == IndexOfRepl(text)
  IN Substring(text,
               IF exceptCharIndex # -1 THEN Min(emittedLen, exceptCharIndex)
                                       ELSE emittedLen,
               IF exceptCharIndex = -1 THEN Len(text) ELSE exceptCharIndex)

EventChunkFromStart(result, emittedLen) ==
  LET raw == RawChunk(PartsText(result.contents), 0)
  IN IF raw # <<>> /\ result.contentType = "text2image"
       THEN StripUrlQueries(raw) ELSE raw

\* the chunk of one event, after the text2image URL rewrite
EventChunk(result, emittedLen) ==
  LET raw == RawChunk(PartsText(result.contents), emittedLen)
  IN IF raw # <<>> /\ result.contentType = "text2image"
       THEN StripUrlQueries(raw) ELSE raw

\* "\n[内容由于不合规被停止生成，我们换个话题吧]"
NOTICE == [i \in 1..NOTICE_LEN |-> "nt"]
ErrorSuffixFirst(code) == code \o [i \in 1..ERROR_PREFIX_LEN |-> "sf"]

\* `服务暂时不可用，第三方响应错误：${result.errorCode}`
ErrorSuffix(code) == [i \in 1..ERROR_PREFIX_LEN |-> "sf"] \o code

TerminalSuffixNone(result) == <<>>

\* the notice and the error suffix appended to the terminal unit
TerminalSuffix(result) ==
  (IF ~result.canShare THEN NOTICE ELSE <<>>)
    \o (IF result.errorCode # <<>> THEN ErrorSuffix(result.errorCode) ELSE <<>>)

(* ------------------------ PassThrough output stream -------------------- *)
\* new PassThrough(): calls is every write()/end(data) performed on the stream,
\* in order; a call made after end() or after destruction is rejected by the
\* stream (ERR_STREAM_WRITE_AFTER_END / ERR_STREAM_DESTROYED), marked late, and
\* errors the stream.  closed is the stream's `closed` property, set when its
\* 'close' event has been emitted.
NewPassThrough ==
  [calls |-> <<>>, ended |-> FALSE, errored |-> FALSE, closed |-> FALSE,
   byCaller |-> FALSE]

Frame(kind, id, role, content, finish, usage) ==
  [kind |-> kind, id |-> id, role |-> role, content |-> content,
   finish |-> finish, usage |-> usage, late |-> FALSE]

RoleOpenFrame == Frame("chunk", "", TRUE, <<>>, "null", FALSE)
DeltaFrame(id, chunk) == Frame("chunk", id, FALSE, chunk, "null", FALSE)
StopFrame(id, delta) == Frame("chunk", id, FALSE, delta, "stop", TRUE)
DoneFrame == Frame("done", "", FALSE, <<>>, "null", FALSE)
BlankFrame == Frame("blank", "", FALSE, <<>>, "null", FALSE)

\* transStream.write(data)
PtWrite(pt, frame) ==
  IF pt.ended \/ pt.errored
    THEN [pt EXCEPT !.calls = Append(@, [frame EXCEPT !.late = TRUE]),
                    !.errored = TRUE]
    ELSE [pt EXCEPT !.calls = Append(@, frame)]

\* transStream.end(data)
PtEnd(pt, frame) == [PtWrite(pt, frame) EXCEPT !.ended = TRUE]

GuardedWriteAlways(pt, frame) == PtWrite(pt, frame)

\* !transStream.closed && transStream.write(data)
GuardedWrite(pt, frame) == IF pt.closed THEN pt ELSE PtWrite(pt, frame)

\* !transStream.closed && transStream.end(data)
GuardedEnd(pt, frame) == IF pt.closed THEN pt ELSE PtEnd(pt, frame)

ConvIdLatest(result) == <<result.sessionId, "latest">>

\* `${result.sessionId}-${result.msgId}`
ConvId(result) == <<result.sessionId, result.msgId>>

(* ------------------------ streaming transcoder ------------------------- *)
NewTransTwoRoles ==
  [content |-> <<>>, ts |-> PtWrite(PtWrite(NewPassThrough, RoleOpenFrame), RoleOpenFrame),
   cb |-> <<>>]

\* state of one createTransStream call: the closure variable content, the
\* PassThrough, and the arguments endCallback has been called with
NewTrans ==
  [content |-> <<>>, ts |-> PtWrite(NewPassThrough, RoleOpenFrame), cb |-> <<>>]

\* catch (err) { !transStream.closed && transStream.end("\n\n") }
TransOnThrow(s) == [s EXCEPT !.ts = GuardedEnd(@, BlankFrame)]

\* the createParser callback of createTransStream for one SSE event
TransOnEvent(s, ev) ==
  IF ev.kind = "done" THEN s
  ELSE IF ev.kind = "malformed" THEN TransOnThrow(s)
  ELSE
    LET chunk == EventChunk(ev, Len(s.content))
    IN IF ev.msgStatus # "finished"
         THEN IF chunk # <<>> /\ ev.contentType = "text"
                THEN [s EXCEPT !.content = @ \o chunk,
                               !.ts = GuardedWrite(@, DeltaFrame(ConvId(ev), chunk))]
                ELSE s
         ELSE LET delta == chunk \o TerminalSuffix(ev)
                  w == GuardedWrite(s.ts, StopFrame(ConvId(ev), delta))
              IN [s EXCEPT !.ts = GuardedEnd(w, DoneFrame),
                           !.content = <<>>,
                           !.cb = Append(@, ev.sessionId)]

\* stream.once("error", ...) and stream.once("close", ...) of createTransStream
TransOnStreamEnd(s) == [s EXCEPT !.ts = GuardedEnd(@, DoneFrame)]

(* ------------------------ aggregate transcoder ------------------------- *)
\* state of one receiveStream call: the envelope object data and the promise
NewAgg ==
  [data |-> [id |-> <<>>, content |-> <<>>], promise |-> "pending",
   reason |-> "none"]

ResolveUnguarded(a) == [a EXCEPT !.promise = "fulfilled"]

\* resolve(data): settles the promise if it is still pending
Resolve(a) == IF a.promise = "pending" THEN [a EXCEPT !.promise = "fulfilled"] ELSE a
Reject(a, err) ==
  IF a.promise = "pending" THEN [a EXCEPT !.promise = "rejected", !.reason = err]
  ELSE a

\* the createParser callback of receiveStream for one SSE event
AggOnEvent(a, ev) ==
  IF ev.kind = "done" THEN a
  ELSE IF ev.kind = "malformed" THEN Reject(a, "invalid")
  ELSE
    LET withId == IF a.data.id = <<>> /\ ev.sessionId # "" /\ ev.msgId # ""
                    THEN [a EXCEPT !.data.id = ConvId(ev)] ELSE a
        chunk == EventChunk(ev, Len(a.data.content))
    IN IF ev.msgStatus # "finished"
         THEN IF ev.contentType = "text"
                THEN [withId EXCEPT !.data.content = @ \o chunk]
                ELSE withId
         ELSE Resolve([withId EXCEPT
                         !.data.content = @ \o chunk \o TerminalSuffix(ev)])

\* stream.once("error", (err) => reject(err))
AggOnStreamError(a) == Reject(a, "transport")

\* stream.once("close", () => resolve(data))
AggOnStreamClose(a) == Resolve(a)

(* ------------------ law / solve aggregate transcoder ------------------- *)
\* result.contents.reduce(...): the content of the parts that are assistant,
\* text and finished
RECURSIVE FinalContent(_)
FinalContent(contents) ==
  IF contents = <<>> THEN <<>>
  ELSE LET part == Head(contents)
           keep == /\ part.role = "assistant"
                   /\ part.contentType = "text"
                   /\ part.status = "finished"
       IN (IF keep THEN part.content ELSE <<>>) \o FinalContent(Tail(contents))

LawReplacesNever(result) == FALSE

\* result.incremental === false && result.contents && result.contents.length > 0
LawReplaces(result) == result.incremental = FALSE /\ result.contents # <<>>

\* the createParser callback of receiveLawStream and receiveSolveStream for one
\* SSE event; contentType "" is an absent contentType
LawAggOnEvent(a, ev) ==
  IF ev.kind = "done" THEN a
  ELSE IF ev.kind = "malformed" THEN Reject(a, "invalid")
  ELSE
    LET withId == IF a.data.id = <<>> /\ ev.sessionId # "" /\ ev.msgId # ""
                    THEN [a EXCEPT !.data.id = ConvId(ev)] ELSE a
        chunk == EventChunk(ev, Len(a.data.content))
    IN IF ev.msgStatus # "finished"
         THEN IF ev.contentType = "text" \/ ev.contentType = ""
                THEN [withId EXCEPT !.data.content = @ \o chunk]
                ELSE withId
         ELSE LET content == IF LawReplaces(ev) THEN FinalContent(ev.contents)
                             ELSE a.data.content \o chunk
              IN Resolve([withId EXCEPT !.data.content = content \o TerminalSuffix(ev)])

\* the createParser callback of createLawTransStream and createSolveTransStream:
\* the code of createTransStream with another model name
LawTransOnEvent(s, ev) == TransOnEvent(s, ev)

(* ------------------------- image transcoder ---------------------------- *)
\* text.match(<URL pattern>) || []: the matches from unit i on, in order
RECURSIVE MatchUrlsFrom(_, _)
MatchUrlsFrom(text, i) ==
  IF i > Len(text) THEN <<>>
  ELSE LET e == UrlMatchEnd(text, i)
       IN IF e = 0 THEN MatchUrlsFrom(text, i + 1)
          ELSE <<SubSeq(text, i, e)>> \o MatchUrlsFrom(text, e + 1)

\* (result.contents || []).reduce(...) of receiveImages: the content of the
\* parts that are assistant-role or string-valued, whatever their contentType
RECURSIVE ImagePartsText(_)
ImagePartsText(contents) ==
  IF contents = <<>> THEN <<>>
  ELSE LET part == Head(contents)
       IN (IF part.role = "assistant" \/ part.isString THEN part.content ELSE <<>>)
            \o ImagePartsText(Tail(contents))

\* urls.forEach(...): push each URL without its query unless already present
RECURSIVE PushImageUrls(_, _)
PushImageUrls(imageUrls, urls) ==
  IF urls = <<>> THEN imageUrls
  ELSE LET imageUrl == UrlWithoutSearch(Head(urls))
       IN PushImageUrls(IF \E k \in 1..Len(imageUrls) : imageUrls[k] = imageUrl
                          THEN imageUrls ELSE Append(imageUrls, imageUrl),
                        Tail(urls))

\* state of one receiveImages call
NewImages == [convId |-> "", imageUrls |-> <<>>, promise |-> "pending", reason |-> "none"]

\* the createParser callback of receiveImages for one SSE event
ImagesOnEvent(a, ev) ==
  IF ev.kind = "done" THEN a
  ELSE IF ev.kind = "malformed" THEN Reject(a, "invalid")
  ELSE
    LET withId == IF a.convId = "" /\ ev.sessionId # ""
                    THEN [a EXCEPT !.convId = ev.sessionId] ELSE a
        text == ImagePartsText(ev.contents)
        urls == IF ev.contentFrom = "text2image" THEN MatchUrlsFrom(text, 1) ELSE <<>>
        b == [withId EXCEPT !.imageUrls = PushImageUrls(@, urls)]
    IN IF ev.msgStatus = "finished"
         THEN IF ~ev.canShare \/ b.imageUrls = <<>> THEN Reject(b, "filtered")
              ELSE IF ev.errorCode # <<>> THEN Reject(b, "failed")
              ELSE b
         ELSE b

\* stream.once("error", (err) => reject(err)) of receiveImages
ImagesOnStreamError(a) == Reject(a, "transport")

\* stream.once("close", () => resolve({ convId, imageUrls })) of receiveImages
ImagesOnStreamClose(a) == Resolve(a)

(* ------------------------------ inputs --------------------------------- *)
\* a decoded vendor record
Ev(contents, ct, status, canShare, errorCode) ==
  [kind |-> "json", contents |-> contents, contentType |-> ct,
   msgStatus |-> status, canShare |-> canShare, errorCode |-> errorCode,
   sessionId |-> "s1", msgId |-> "m1", incremental |-> TRUE]

\* event data that JSON.parse rejects
MalformedEv == [Ev(<<>>, "none", "generating", TRUE, <<>>) EXCEPT !.kind = "malformed"]
\* the vendor's own "[DONE]" event
DoneEv == [Ev(<<>>, "none", "generating", TRUE, <<>>) EXCEPT !.kind = "done"]

TextPart(content) == Part("text", "assistant", content, "finished")
\* http://hh.cn/p?k
URLTEXT == <<"h", "t", "t", "p", ":", "/", "/", "h", "h", ".", "c", "n", "/", "p", "?", "k">>
E1 == <<"E", "1">>
cA == <<TextPart(<<"zh1">>)>>
cAB == <<TextPart(<<"zh1">>), TextPart(<<"zh2">>)>>
cAR == <<TextPart(<<"zh1", "FFFD">>)>>
cURL == <<Part("text2image", "assistant", URLTEXT, "finished")>>
cSkip == <<Part("plugin", "assistant", <<"zh2">>, "finished"), TextPart(<<"zh1">>)>>

NonTerminalEvents ==
  {Ev(c, ct, "generating", TRUE, <<>>) : c \in {cA, cAB, cAR}, ct \in {"text", "text2image"}}
    \cup {Ev(cAB, "none", "generating", TRUE, <<>>), Ev(cSkip, "text", "generating", TRUE, <<>>)}

TerminalEvents ==
  {Ev(cAB, "text", "finished", TRUE, <<>>), Ev(cAB, "text", "finished", FALSE, <<>>),
   Ev(cAB, "text", "finished", TRUE, E1), Ev(cURL, "text2image", "finished", TRUE, <<>>),
   Ev(<<>>, "text", "finished", FALSE, E1), Ev(cAR, "text", "finished", TRUE, <<>>),
   Ev(cAB, "text", "finished", FALSE, E1)}

\* a decoded vendor record of the law and solve agents, with its incremental flag
LawEv(contents, ct, status, canShare, errorCode, incremental) ==
  [Ev(contents, ct, status, canShare, errorCode) EXCEPT !.incremental = incremental]

cFinal == <<TextPart(<<"zh2", "zh1">>)>>
cMixed ==
  <<Part("text", "assistant", <<"zh1">>, "generating"),
    Part("text", "user", <<"zh1">>, "finished"),
    Part("text2image", "assistant", <<"zh1">>, "finished"),
    TextPart(<<"zh2">>)>>

\* a text part the vendor has not marked finished
cUnfinished == <<Part("text", "assistant", <<"zh1", "zh2">>, "generating")>>

\* events fed to the law transcoders
EventsL ==
  {LawEv(c, ct, "generating", TRUE, <<>>, TRUE) : c \in {cA, cAB, cAR}, ct \in {"text", ""}}
    \cup {LawEv(cAB, "text2image", "generating", TRUE, <<>>, TRUE)}
    \cup {LawEv(c, "text", "finished", TRUE, <<>>, FALSE) : c \in {cAB, cFinal, cMixed, cAR, <<>>}}
    \cup {LawEv(cAB, "text", "finished", TRUE, <<>>, TRUE),
          LawEv(cFinal, "text", "finished", FALSE, E1, FALSE),
          LawEv(cURL, "text2image", "finished", TRUE, <<>>, TRUE),
          LawEv(cUnfinished, "text", "finished", TRUE, <<>>, FALSE),
          MalformedEv, DoneEv}

\* a decoded vendor record of an image generation
ImgEv(contents, from, status, canShare, errorCode) ==
  [kind |-> "json", contents |-> contents, contentFrom |-> from,
   msgStatus |-> status, canShare |-> canShare, errorCode |-> errorCode,
   sessionId |-> "s1"]

\* events fed to receiveImages
EventsI ==
  {ImgEv(cURL, "text2image", "generating", TRUE, <<>>),
   ImgEv(cURL, "text", "generating", TRUE, <<>>),
   ImgEv(cURL, "text2image", "finished", TRUE, <<>>),
   ImgEv(<<>>, "text2image", "finished", TRUE, <<>>),
   ImgEv(<<>>, "text2image", "finished", FALSE, <<>>),
   ImgEv(<<>>, "text2image", "finished", TRUE, E1),
   [ImgEv(<<>>, "", "generating", TRUE, <<>>) EXCEPT !.kind = "malformed"]}

\* a vendor record with the given sessionId and msgId ("" when absent)
EvId(sessionId, msgId, status) ==
  [Ev(cA, "text", status, TRUE, <<>>) EXCEPT !.sessionId = sessionId, !.msgId = msgId]

\* events fed to the pair of transcoders to observe the identifiers
EventsD ==
  {EvId(s, m, "generating") : s \in {"", "s1", "s2"}, m \in {"", "m1", "m2"}}
    \cup {EvId("s1", "m1", "finished"), EvId("s2", "m2", "finished"),
          EvId("s2", "", "finished"), MalformedEv, DoneEv}

\* events fed to the pair of transcoders
EventsT == NonTerminalEvents \cup TerminalEvents \cup {MalformedEv, DoneEv}

\* events fed to the transcoder inside the retry envelope
EventsE ==
  {Ev(cA, "text", "generating", TRUE, <<>>), Ev(cAB, "text", "finished", TRUE, <<>>),
   Ev(cAB, "text", "finished", FALSE, E1), MalformedEv}

\* the request's messages (passed unchanged to every invocation)
MESSAGES == "messages"

(* ------------------------------- state --------------------------------- *)
VARIABLES
  stream,      \* the upstream response stream req: "none", "open", "errored", "closed"
  events,      \* the SSE events delivered on it so far
  trans,       \* the streaming transcoder (createTransStream)
  agg,         \* the aggregate transcoder (receiveStream)
  mode,        \* "agg" (createCompletion), "stream" (createCompletionStream), "pair"
  pc,          \* position of the envelope
  nFiles,      \* extractRefFileUrls(messages).length
  retryCount,  \* parameter retryCount of the current invocation
  sessionVar,  \* the outer `let session` of the current invocation: 0 is undefined
  sessions,    \* per attempt: was a session opened, how often close() was called
  uploads,     \* per attempt: the uploadFile calls made and how many succeeded
  sent,        \* per attempt: the messages and refs written to the request
  trace,       \* order of attempts ("A") and backoff sleeps ("S")
  waited,      \* total time slept in backoff, in ms
  errs,        \* per attempt: the error it failed with
  thrown,      \* the error the envelope rejected with
  removed,     \* the removeConversation calls: conversation id and state
  result,      \* what the envelope returned
  poller,      \* the generation-job poller
  norm         \* a text and the results of normalising its URLs, repeatedly

vars == <<stream, events, trans, agg, mode, pc, nFiles, retryCount, sessionVar, sessions,
          uploads, sent, trace, waited, errs, thrown, removed, result, poller, norm>>
transVars == <<stream, events, trans, agg>>
envVars == <<mode, pc, nFiles, retryCount, sessionVar, sessions, uploads, sent, trace,
             waited, errs, thrown, removed, result>>

Attempts == 1..(MAX_RETRY_COUNT + 2)
NoTrans == [content |-> <<>>, ts |-> NewPassThrough, cb |-> <<>>]
NoError == <<"none", 0>>
\* no poller is running
NoPoller == [pc |-> "none"]
\* no text is being normalised
NoNorm == [text |-> <<>>, outs |-> <<>>]

EnvIdle(m, p) ==
  /\ mode = m
  /\ pc = p
  /\ retryCount = 0
  /\ sessionVar = 0
  /\ sessions = [a \in Attempts |-> [opened |-> FALSE, closes |-> 0]]
  /\ uploads = [a \in Attempts |-> [calls |-> 0, ok |-> 0]]
  /\ sent = [a \in Attempts |-> <<>>]
  /\ trace = IF m \in {"agg", "stream", "images", "dp"} THEN <<"A">> ELSE <<>>
  /\ waited = 0
  /\ errs = [a \in Attempts |-> NoError]
  /\ thrown = NoError
  /\ removed = <<>>
  /\ result = "none"

(* ------------- the two transcoders fed the same vendor stream ---------- *)
InitT ==
  /\ stream = "open"
  /\ events = <<>>
  /\ trans = NewTrans
  /\ agg = NewAgg
  /\ EnvIdle("pair", "pair")
  /\ nFiles = 0
  /\ poller = NoPoller
  /\ norm = NoNorm

\* stream.on("data", ...): one SSE event reaches both parsers
PairEvent(ev) ==
  /\ mode = "pair" /\ stream = "open" /\ Len(events) < MaxEvents
  /\ events' = Append(events, ev)
  /\ trans' = TransOnEvent(trans, ev)
  /\ agg' = AggOnEvent(agg, ev)
  /\ UNCHANGED <<stream, envVars, poller, norm>>

\* stream 'error'
PairError ==
  /\ mode = "pair" /\ stream = "open"
  /\ stream' = "errored"
  /\ trans' = TransOnStreamEnd(trans)
  /\ agg' = AggOnStreamError(agg)
  /\ UNCHANGED <<events, envVars, poller, norm>>

\* stream 'close' (also follows 'error')
PairClose ==
  /\ mode = "pair" /\ stream \in {"open", "errored"}
  /\ stream' = "closed"
  /\ trans' = TransOnStreamEnd(trans)
  /\ agg' = AggOnStreamClose(agg)
  /\ UNCHANGED <<events, envVars, poller, norm>>

\* the PassThrough emits 'close': its consumer has read everything after
\* end(), or the stream was destroyed by a rejected write
TransStreamClosed ==
  /\ ~trans.ts.closed
  /\ trans.ts.ended \/ trans.ts.errored
  /\ trans' = [trans EXCEPT !.ts.closed = TRUE]
  /\ UNCHANGED <<stream, events, agg, envVars, poller, norm>>

\* the caller destroys the output stream (client disconnect)
CallerClose ==
  /\ mode \in {"pair", "stream", "law", "dp"} /\ trans # NoTrans
  /\ ~trans.ts.closed
  /\ trans' = [trans EXCEPT !.ts.closed = TRUE, !.ts.byCaller = TRUE]
  /\ UNCHANGED <<stream, events, agg, envVars, poller, norm>>

NextT ==
  \/ \E ev \in EventsT : PairEvent(ev)
  \/ PairError
  \/ PairClose
  \/ TransStreamClosed
  \/ CallerClose

SpecT == InitT /\ [][NextT]_vars

\* the pair of transcoders fed records whose identifiers vary
NextD ==
  \/ \E ev \in EventsD : PairEvent(ev)
  \/ PairError
  \/ PairClose
  \/ TransStreamClosed
  \/ CallerClose

SpecD == InitT /\ [][NextD]_vars

(* ----------- the law transcoders fed the same vendor stream ----------- *)
InitL ==
  /\ stream = "open"
  /\ events = <<>>
  /\ trans = NewTrans
  /\ agg = NewAgg
  /\ EnvIdle("law", "law")
  /\ nFiles = 0
  /\ poller = NoPoller
  /\ norm = NoNorm

\* stream.on("data", ...): one SSE event reaches both parsers
LawEvent(ev) ==
  /\ mode = "law" /\ stream = "open" /\ Len(events) < MaxEvents
  /\ events' = Append(events, ev)
  /\ trans' = LawTransOnEvent(trans, ev)
  /\ agg' = LawAggOnEvent(agg, ev)
  /\ UNCHANGED <<stream, envVars, poller, norm>>

\* stream 'error'
LawError ==
  /\ mode = "law" /\ stream = "open"
  /\ stream' = "errored"
  /\ trans' = TransOnStreamEnd(trans)
  /\ agg' = AggOnStreamError(agg)
  /\ UNCHANGED <<events, envVars, poller, norm>>

\* stream 'close' (also follows 'error')
LawClose ==
  /\ mode = "law" /\ stream \in {"open", "errored"}
  /\ stream' = "closed"
  /\ trans' = TransOnStreamEnd(trans)
  /\ agg' = AggOnStreamClose(agg)
  /\ UNCHANGED <<events, envVars, poller, norm>>

NextL ==
  \/ \E ev \in EventsL : LawEvent(ev)
  \/ LawError
  \/ LawClose
  \/ TransStreamClosed
  \/ CallerClose

SpecL == InitL /\ [][NextL]_vars

(* --------------------------- retry envelope ---------------------------- *)
\* createCompletion (mode "agg") and createCompletionStream (mode "stream"),
\* one logical request; the attempt of the current invocation is retryCount + 1
Init ==
  /\ stream = "none"
  /\ events = <<>>
  /\ trans = NoTrans
  /\ agg = NewAgg
  /\ nFiles \in 0..MaxFiles
  /\ \E m \in {"agg", "stream"} : EnvIdle(m, "upload")
  /\ poller = NoPoller
  /\ norm = NoNorm

Attempt == retryCount + 1

\* session.close()
CloseSession(ss, a) == [ss EXCEPT ![a].closes = @ + 1]

ShouldRetryOffByOne(rc) == rc <= MAX_RETRY_COUNT

\* if (retryCount < MAX_RETRY_COUNT)
ShouldRetry(rc) == rc < MAX_RETRY_COUNT

CatchNoBackoff(err) ==
  /\ sessions' = IF sessionVar # 0 THEN CloseSession(sessions, sessionVar) ELSE sessions
  /\ errs' = [errs EXCEPT ![Attempt] = err]
  /\ IF ShouldRetry(retryCount)
       THEN /\ pc' = "sleep" /\ thrown' = thrown
            /\ UNCHANGED <<trace, waited>>
       ELSE /\ pc' = "failed" /\ thrown' = err
            /\ UNCHANGED <<trace, waited>>

\* .catch((err) => { session && session.close(); if (...) { sleep; re-invoke } throw err })
Catch(err) ==
  /\ sessions' = IF sessionVar # 0 THEN CloseSession(sessions, sessionVar) ELSE sessions
  /\ errs' = [errs EXCEPT ![Attempt] = err]
  /\ IF ShouldRetry(retryCount)
       THEN /\ pc' = "sleep" /\ trace' = Append(trace, "S")
            /\ waited' = waited + RETRY_DELAY /\ thrown' = thrown
       ELSE /\ pc' = "failed" /\ thrown' = err
            /\ UNCHANGED <<trace, waited>>

\* the refs returned by the uploadFile calls of attempt a: each upload obtains
\* its own upload parameters and download link
Refs(a) == [i \in 1..nFiles |-> <<a, i>>]

\* the steps of uploadFile that can throw: the URL precheck (invalid or
\* unreachable URL), the size limit, the upload itself (download of the source,
\* upload parameters, OSS upload, download link), the content-safety scan
\* reporting failure, and the scan running out of time
FileFailures == {"url", "size", "upload", "scan", "timeout"}

\* uploadFile(fileUrl, ticket) for a file whose step `fail` fails ("none": no
\* step does): an image is returned without a scan
UploadFile(isImage, fail) ==
  IF fail \in {"url", "size", "upload"} THEN fail
  ELSE IF isImage THEN "ok"
  ELSE IF fail \in {"scan", "timeout"} THEN fail
  ELSE "ok"

\* one referenced file: is it an image, and the step of uploadFile that fails;
\* every failure for a document, and for an image no failure or a failing scan
FileInputs ==
  ({FALSE} \X ({"none"} \cup FileFailures)) \cup {<<TRUE, "none">>, <<TRUE, "scan">>}

AllUploadedSettled(outs) == TRUE

\* Promise.all(refFileUrls.map(uploadFile)) is fulfilled
AllUploaded(outs) == \A i \in DOMAIN outs : outs[i] = "ok"

\* const refs = refFileUrls.length ? await Promise.all(refFileUrls.map(uploadFile)) : []
\* every uploadFile call is started; the first rejection rejects Promise.all
UploadFiles(files) ==
  /\ pc = "upload"
  /\ LET outs == [i \in 1..nFiles |-> UploadFile(files[i][1], files[i][2])]
     IN /\ uploads' = [uploads EXCEPT ![Attempt] =
                         [calls |-> nFiles,
                          ok |-> Cardinality({i \in 1..nFiles : outs[i] = "ok"})]]
        /\ IF AllUploaded(outs)
             THEN /\ pc' = "connect"
                  /\ UNCHANGED <<sessions, errs, trace, waited, thrown>>
             ELSE \E i \in 1..nFiles :
                    /\ outs[i] # "ok"
                    /\ Catch(<<outs[i], Attempt>>)
  /\ UNCHANGED <<transVars, mode, nFiles, retryCount, sessionVar, sent, removed, result, poller, norm>>

\* await new Promise(... http2.connect ... ): in createCompletion the session
\* is bound to an inner const, in createCompletionStream to the outer let
Connect(ok) ==
  /\ pc = "connect"
  /\ IF ok
       THEN /\ pc' = "request"
            /\ sessions' = [sessions EXCEPT ![Attempt].opened = TRUE]
            /\ sessionVar' = IF mode = "stream" THEN Attempt ELSE sessionVar
            /\ UNCHANGED <<errs, trace, waited, thrown>>
       ELSE /\ Catch(<<"connect", Attempt>>)
            /\ UNCHANGED sessionVar
  /\ UNCHANGED <<transVars, mode, nFiles, retryCount, uploads, sent, removed, result, poller, norm>>

\* session.request(...); req.write(JSON.stringify({... contents:
\* messagesPrepare(messages, refs, ...)})); then receiveStream(req) is awaited,
\* or createTransStream(req, endCallback) is returned
SendRequest(ok) ==
  /\ pc = "request"
  /\ IF ok
       THEN /\ sent' = [sent EXCEPT ![Attempt] = <<MESSAGES, Refs(Attempt)>>]
            /\ stream' = "open"
            /\ events' = <<>>
            /\ IF mode = "agg"
                 THEN agg' = NewAgg /\ pc' = "receive" /\ UNCHANGED <<trans, result>>
                 ELSE trans' = NewTrans /\ pc' = "done" /\ result' = "stream"
                      /\ UNCHANGED agg
            /\ UNCHANGED <<sessions, errs, trace, waited, thrown>>
       ELSE /\ Catch(<<"request", Attempt>>)
            /\ UNCHANGED <<transVars, sent, result>>
  /\ UNCHANGED <<mode, nFiles, retryCount, sessionVar, uploads, removed, poller, norm>>

\* await new Promise((resolve) => setTimeout(resolve, RETRY_DELAY));
\* return createCompletion(..., retryCount + 1)
SleepDone ==
  /\ mode \in {"agg", "stream"} /\ pc = "sleep"
  /\ retryCount' = retryCount + 1
  /\ sessionVar' = 0
  /\ trace' = Append(trace, "A")
  /\ pc' = "upload"
  /\ UNCHANGED <<transVars, mode, nFiles, sessions, uploads, sent, waited, errs,
                 thrown, removed, result, poller, norm>>

\* aggregate mode: one SSE event reaches the parser of receiveStream
AggEvent(ev) ==
  /\ mode = "agg" /\ stream = "open" /\ Len(events) < MaxEvents
  /\ events' = Append(events, ev)
  /\ agg' = AggOnEvent(agg, ev)
  /\ UNCHANGED <<stream, trans, envVars, poller, norm>>

AggError ==
  /\ mode = "agg" /\ stream = "open"
  /\ stream' = "errored"
  /\ agg' = AggOnStreamError(agg)
  /\ UNCHANGED <<events, trans, envVars, poller, norm>>

AggClose ==
  /\ mode = "agg" /\ stream \in {"open", "errored"}
  /\ stream' = "closed"
  /\ agg' = AggOnStreamClose(agg)
  /\ UNCHANGED <<events, trans, envVars, poller, norm>>

\* removeConversation(convId, ticket).catch((err) => console.error(err)): the
\* call is started and not awaited
RemoveConversation(calls, convId) == Append(calls, [id |-> convId, status |-> "pending"])

\* a removeConversation call settles: the deletion request succeeded, or it
\* failed (checkResult threw, request error) and the error was logged
RemoveConversationSettles(i, ok) ==
  /\ i \in 1..Len(removed)
  /\ removed[i].status = "pending"
  /\ removed' = [removed EXCEPT ![i].status = IF ok THEN "ok" ELSE "failed"]
  /\ UNCHANGED <<transVars, mode, pc, nFiles, retryCount, sessionVar, sessions, uploads,
                 sent, trace, waited, errs, thrown, result, poller, norm>>

\* const answer = await receiveStream(req); session.close();
\* removeConversation(answer.id, ticket).catch(...); return answer
AggResume ==
  /\ mode = "agg" /\ pc = "receive" /\ agg.promise = "fulfilled"
  /\ sessions' = CloseSession(sessions, Attempt)
  /\ removed' = RemoveConversation(removed, agg.data.id)
  /\ result' = "answer"
  /\ pc' = "done"
  /\ UNCHANGED <<transVars, mode, nFiles, retryCount, sessionVar, uploads, sent,
                 trace, waited, errs, thrown, poller, norm>>

\* await receiveStream(req) throws
AggRejected ==
  /\ mode = "agg" /\ pc = "receive" /\ agg.promise = "rejected"
  /\ Catch(<<agg.reason, Attempt>>)
  /\ UNCHANGED <<transVars, mode, nFiles, retryCount, sessionVar, uploads, sent,
                 removed, result, poller, norm>>

\* endCallback of createCompletionStream, once per call recorded in cb
EndCallback(old, new) ==
  IF Len(new.cb) > Len(old.cb)
    THEN /\ sessions' = CloseSession(sessions, sessionVar)
         /\ removed' = RemoveConversation(removed, new.cb[Len(new.cb)])
    ELSE UNCHANGED <<sessions, removed>>

\* streaming mode: one SSE event reaches the parser of createTransStream
StreamEvent(ev) ==
  /\ mode = "stream" /\ stream = "open" /\ Len(events) < MaxEvents
  /\ events' = Append(events, ev)
  /\ trans' = TransOnEvent(trans, ev)
  /\ EndCallback(trans, trans')
  /\ UNCHANGED <<stream, agg, mode, pc, nFiles, retryCount, sessionVar, uploads,
                 sent, trace, waited, errs, thrown, result, poller, norm>>

StreamError ==
  /\ mode = "stream" /\ stream = "open"
  /\ stream' = "errored"
  /\ trans' = TransOnStreamEnd(trans)
  /\ UNCHANGED <<events, agg, envVars, poller, norm>>

StreamClose ==
  /\ mode = "stream" /\ stream \in {"open", "errored"}
  /\ stream' = "closed"
  /\ trans' = TransOnStreamEnd(trans)
  /\ UNCHANGED <<events, agg, envVars, poller, norm>>

\* the referenced files of a request in the retry envelope: all are uploaded,
\* or the upload of the first one fails
FilesE ==
  {[i \in 1..nFiles |-> <<FALSE, "none">>],
   [i \in 1..nFiles |-> IF i = 1 THEN <<FALSE, "upload">> ELSE <<FALSE, "none">>]}

Next ==
  \/ \E files \in FilesE : UploadFiles(files)
  \/ \E ok \in BOOLEAN : Connect(ok)
  \/ \E ok \in BOOLEAN : SendRequest(ok)
  \/ SleepDone
  \/ \E ev \in EventsE : AggEvent(ev)
  \/ AggError
  \/ AggClose
  \/ AggResume
  \/ AggRejected
  \/ \E ev \in EventsE : StreamEvent(ev)
  \/ StreamError
  \/ StreamClose
  \/ TransStreamClosed
  \/ CallerClose

\* the deletions started by the envelope stay in flight here; SpecU lets them settle
Spec == Init /\ [][Next]_vars

(* ------------------------ image generation ----------------------------- *)
\* generateImages: the retry envelope around receiveImages; agg holds the
\* receiveImages call of the current attempt
InitI ==
  /\ stream = "none"
  /\ events = <<>>
  /\ trans = NoTrans
  /\ agg = NewImages
  /\ nFiles = 0
  /\ EnvIdle("images", "connect")
  /\ poller = NoPoller
  /\ norm = NoNorm

\* const session = await new Promise(... http2.connect ...): bound to an inner const
ImgConnect(ok) ==
  /\ mode = "images" /\ pc = "connect"
  /\ IF ok
       THEN /\ pc' = "request"
            /\ sessions' = [sessions EXCEPT ![Attempt].opened = TRUE]
            /\ UNCHANGED <<errs, trace, waited, thrown>>
       ELSE Catch(<<"connect", Attempt>>)
  /\ UNCHANGED <<transVars, mode, nFiles, retryCount, sessionVar, uploads, sent, removed,
                 result, poller, norm>>

\* session.request(...); req.write(...); req.end(); receiveImages(req) is awaited
ImgSendRequest(ok) ==
  /\ mode = "images" /\ pc = "request"
  /\ IF ok
       THEN /\ stream' = "open" /\ events' = <<>> /\ agg' = NewImages
            /\ pc' = "receive"
            /\ UNCHANGED <<sessions, errs, trace, waited, thrown>>
       ELSE /\ Catch(<<"request", Attempt>>)
            /\ UNCHANGED <<stream, events, agg>>
  /\ UNCHANGED <<trans, mode, nFiles, retryCount, sessionVar, uploads, sent, removed,
                 result, poller, norm>>

\* one SSE event reaches the parser of receiveImages
ImgEvent(ev) ==
  /\ mode = "images" /\ stream = "open" /\ Len(events) < MaxImageEvents
  /\ events' = Append(events, ev)
  /\ agg' = ImagesOnEvent(agg, ev)
  /\ UNCHANGED <<stream, trans, envVars, poller, norm>>

ImgError ==
  /\ mode = "images" /\ stream = "open"
  /\ stream' = "errored"
  /\ agg' = ImagesOnStreamError(agg)
  /\ UNCHANGED <<events, trans, envVars, poller, norm>>

ImgClose ==
  /\ mode = "images" /\ stream \in {"open", "errored"}
  /\ stream' = "closed"
  /\ agg' = ImagesOnStreamClose(agg)
  /\ UNCHANGED <<events, trans, envVars, poller, norm>>

\* const { convId, imageUrls } = await receiveImages(req); session.close();
\* removeConversation(convId, ticket).catch(...); return imageUrls
ImgResume ==
  /\ mode = "images" /\ pc = "receive" /\ agg.promise = "fulfilled"
  /\ sessions' = CloseSession(sessions, Attempt)
  /\ removed' = RemoveConversation(removed, agg.convId)
  /\ result' = agg.imageUrls
  /\ pc' = "done"
  /\ UNCHANGED <<transVars, mode, nFiles, retryCount, sessionVar, uploads, sent,
                 trace, waited, errs, thrown, poller, norm>>

\* await receiveImages(req) throws
ImgRejected ==
  /\ mode = "images" /\ pc = "receive" /\ agg.promise = "rejected"
  /\ Catch(<<agg.reason, Attempt>>)
  /\ UNCHANGED <<transVars, mode, nFiles, retryCount, sessionVar, uploads, sent,
                 removed, result, poller, norm>>

\* await new Promise((resolve) => setTimeout(resolve, RETRY_DELAY));
\* return generateImages(model, prompt, ticket, retryCount + 1)
ImgSleepDone ==
  /\ mode = "images" /\ pc = "sleep"
  /\ retryCount' = retryCount + 1
  /\ sessionVar' = 0
  /\ trace' = Append(trace, "A")
  /\ pc' = "connect"
  /\ UNCHANGED <<transVars, mode, nFiles, sessions, uploads, sent, waited, errs,
                 thrown, removed, result, poller, norm>>

NextI ==
  \/ \E ok \in BOOLEAN : ImgConnect(ok)
  \/ \E ok \in BOOLEAN : ImgSendRequest(ok)
  \/ \E ev \in EventsI : ImgEvent(ev)
  \/ ImgError
  \/ ImgClose
  \/ ImgResume
  \/ ImgRejected
  \/ ImgSleepDone

SpecI == InitI /\ [][NextI]_vars

(* ------------- the retry envelope with every file outcome ------------- *)
\* the envelope over every outcome of every referenced file, on a transport
\* that connects and delivers one terminal event
EvU == Ev(cAB, "text", "finished", TRUE, <<>>)

NextU ==
  \/ \E files \in [1..nFiles -> FileInputs] : UploadFiles(files)
  \/ Connect(TRUE)
  \/ SendRequest(TRUE)
  \/ SleepDone
  \/ AggEvent(EvU)
  \/ AggResume
  \/ StreamEvent(EvU)
  \/ \E i \in 1..MaxEvents, ok \in BOOLEAN : RemoveConversationSettles(i, ok)

SpecU == Init /\ [][NextU]_vars

(* ----------------------- generation-job poller ------------------------- *)
\* pollDigitalPeopleTask ("plain") and pollDigitalPeopleTaskWithProgress
\* ("progress")
PollVariants == {"plain", "progress"}
MaxAttempts(v) == IF v = "plain" THEN POLL_MAX_ATTEMPTS ELSE PROGRESS_MAX_ATTEMPTS
PollInterval(v) == IF v = "plain" THEN POLL_INTERVAL ELSE PROGRESS_POLL_INTERVAL

InitialDelayNone(v) == 0

InitialDelay(v) == IF v = "plain" THEN POLL_INITIAL_DELAY ELSE PROGRESS_INITIAL_DELAY

\* what one status request yields: task.status 1 ("pending"), 2 with a video
\* ("done"), 2 without one ("novideo"), 0 ("failed"), a request that throws or
\* is refused by checkResult ("reqerror"), a body without task data ("invalid")
PollReplies == {"pending", "done", "novideo", "failed", "reqerror", "invalid"}
\* the replies for which the body of the try block throws
PollThrows == {"novideo", "failed", "reqerror", "invalid"}
\* task.step?.currentStep || 'unknown'
PollSteps == {"Outline", "VideoCombine", "unknown"}
\* task.videos[0].url
VideoUrls == {URLTEXT, UrlWithoutSearch(URLTEXT)}

\* the poller after its first statement: the initial delay is running; the
\* progress poller has sent its first progress message
NewPoller(v) ==
  [variant |-> v, pc |-> "initial", attempt |-> 0, issued |-> 0, checks |-> 0,
   initialSleeps |-> 0, sleeps |-> 0, slept |-> 0,
   last |-> "none", allPendingBefore |-> TRUE, lastStep |-> "",
   progress |-> IF v = "progress" THEN <<"submitted">> ELSE <<>>,
   outcome |-> <<"none">>, videoUrl |-> <<>>]

\* the messages sendProgress is called with during one check of the progress
\* poller, for a reply that carries task data
ProgressOfCheck(p, step) ==
  (IF step # p.lastStep
     THEN <<IF step = "Outline" THEN "outline"
            ELSE IF step = "VideoCombine" THEN "combine" ELSE "step">>
     ELSE <<>>)
    \o (IF p.attempt > 0 /\ p.attempt % 10 = 0 THEN <<"tick">> ELSE <<>>)

CatchIsLastOffByOne(v, attempt) == attempt = MaxAttempts(v)

\* if (attempt === maxAttempts - 1) of the catch block
CatchIsLast(v, attempt) == attempt = MaxAttempts(v) - 1

SleepsAfterPendingAlways(v, attempt) == TRUE

\* if (attempt < maxAttempts - 1) after a pending status
SleepsAfterPending(v, attempt) == attempt < MaxAttempts(v) - 1

\* the error thrown after the for loop
TimedOut(p) == [p EXCEPT !.pc = "thrown", !.outcome = <<"timeout">>]

\* await new Promise(resolve => setTimeout(resolve, initialDelay))
PollInitialDelayDone ==
  /\ poller.pc = "initial"
  /\ poller' = [poller EXCEPT !.pc = "check", !.initialSleeps = @ + 1,
                              !.slept = @ + InitialDelay(poller.variant),
                              !.progress = <<>>]
  /\ UNCHANGED <<transVars, envVars, norm>>

\* const result = await axios.post(...task/get...): the status request of one
\* iteration of the for loop is sent and awaited
PollRequest ==
  /\ poller.pc = "check" /\ poller.variant \in PollVariants
  /\ poller' = [poller EXCEPT !.pc = "await", !.issued = @ + 1]
  /\ UNCHANGED <<transVars, envVars, norm>>

\* the rest of the iteration up to its next suspension: the request settles,
\* its classification, and the catch block
PollCheck(reply, step, url) ==
  /\ poller.pc = "await" /\ poller.variant \in PollVariants
  /\ LET v == poller.variant
         hasTask == reply \notin {"reqerror", "invalid"}
         p == [poller EXCEPT
                 !.checks = @ + 1,
                 !.last = reply,
                 !.allPendingBefore =
                    poller.checks = 0 \/ (@ /\ poller.last = "pending"),
                 !.lastStep = IF v = "progress" /\ hasTask THEN step ELSE @,
                 !.progress = IF v = "progress" /\ hasTask
                                THEN ProgressOfCheck(poller, step) ELSE <<>>]
     IN poller' =
          IF reply = "done"
            THEN [p EXCEPT !.pc = "returned", !.videoUrl = url]
          ELSE IF reply \in PollThrows
            THEN IF CatchIsLast(v, poller.attempt)
                   THEN [p EXCEPT !.pc = "thrown", !.outcome = <<"pollfailed", reply>>]
                   ELSE [p EXCEPT !.pc = "sleep"]
          ELSE IF SleepsAfterPending(v, poller.attempt)
            THEN [p EXCEPT !.pc = "sleep"]
            ELSE TimedOut([p EXCEPT !.attempt = @ + 1])
  /\ UNCHANGED <<transVars, envVars, norm>>

\* await new Promise(resolve => setTimeout(resolve, pollInterval)); attempt++
PollSleepDone ==
  /\ poller.pc = "sleep"
  /\ LET p == [poller EXCEPT !.attempt = @ + 1, !.sleeps = @ + 1,
                              !.slept = @ + PollInterval(poller.variant),
                              !.progress = <<>>]
     IN poller' = IF p.attempt < MaxAttempts(p.variant)
                    THEN [p EXCEPT !.pc = "check"] ELSE TimedOut(p)
  /\ UNCHANGED <<transVars, envVars, norm>>

InitP ==
  /\ stream = "none"
  /\ events = <<>>
  /\ trans = NoTrans
  /\ agg = NewAgg
  /\ nFiles = 0
  /\ EnvIdle("poll", "poll")
  /\ \E v \in PollVariants : poller = NewPoller(v)
  /\ norm = NoNorm

NextP ==
  \/ PollInitialDelayDone
  \/ PollRequest
  \/ \E reply \in PollReplies, url \in VideoUrls :
       \E step \in (IF poller.variant = "progress" THEN PollSteps ELSE {"unknown"}) :
         PollCheck(reply, step, url)
  \/ PollSleepDone

SpecP == InitP /\ [][NextP]_vars

(* ----------------------- content-safety scan --------------------------- *)
\* the while (true) loop of uploadFile that polls secResult/batch
\* what one request yields: pollEndFlag unset ("pending"), pollEndFlag set with
\* a status other than 0 ("passed") or with status 0 ("failed"), a request that
\* throws or is refused by checkResult ("reqerror")
ScanReplies == {"pending", "passed", "failed", "reqerror"}
\* the time one request takes, at most its timeout
ScanDurations == {SCAN_REQUEST_TIMEOUT \div 3, SCAN_REQUEST_TIMEOUT}

\* const startTime = util.timestamp(); the first request follows at once
NewScan ==
  [variant |-> "scan", pc |-> "check", checks |-> 0, initialSleeps |-> 0,
   sleeps |-> 0, slept |-> 0, elapsed |-> 0, last |-> "none", outcome |-> <<"none">>]

\* one iteration of the loop: the request, checkResult, the pollEndFlag test and
\* the time test; the next iteration starts without a sleep
ScanCheck(reply, d) ==
  /\ poller.pc = "check" /\ poller.variant = "scan"
  /\ LET p == [poller EXCEPT !.checks = @ + 1, !.last = reply, !.elapsed = @ + d]
     IN poller' =
          IF reply = "reqerror"
            THEN [p EXCEPT !.pc = "thrown", !.outcome = <<"scanfailed", reply>>]
          ELSE IF reply = "failed"
            THEN [p EXCEPT !.pc = "thrown", !.outcome = <<"scanfailed", reply>>]
          ELSE IF reply = "passed"
            THEN [p EXCEPT !.pc = "returned"]
          ELSE IF p.elapsed > SCAN_TIME_LIMIT
            THEN [p EXCEPT !.pc = "thrown", !.outcome = <<"timeout">>]
          ELSE p
  /\ UNCHANGED <<transVars, envVars, norm>>

InitS ==
  /\ stream = "none"
  /\ events = <<>>
  /\ trans = NoTrans
  /\ agg = NewAgg
  /\ nFiles = 0
  /\ EnvIdle("scan", "scan")
  /\ poller = NewScan
  /\ norm = NoNorm

NextS == \E reply \in ScanReplies, d \in ScanDurations : ScanCheck(reply, d)

SpecS == InitS /\ [][NextS]_vars

(* ------------------- digital-people first step ------------------------ *)
\* receiveDigitalPeopleFirstStep; agg holds the call
\* a decoded vendor record of the first step: cards are the cardCodes of its
\* workflow card parts, in order
FirstEv(errorCode, sessionId, msgId, cards) ==
  [kind |-> "json", errorCode |-> errorCode, sessionId |-> sessionId, msgId |-> msgId,
   cards |-> cards]

EventsF ==
  {FirstEv("AGENT_PRIVATE_ONLY", "", "", <<>>),
   FirstEv("AGENT_PRIVATE_ONLY", "s1", "m1", <<"c1">>),
   FirstEv("OTHER", "s1", "m1", <<"c1">>),
   FirstEv("", "s1", "m1", <<>>),
   FirstEv("", "s2", "", <<"c1", "c2">>),
   FirstEv("", "", "", <<"c1">>),
   [FirstEv("", "", "", <<>>) EXCEPT !.kind = "malformed"],
   [FirstEv("", "", "", <<>>) EXCEPT !.kind = "done"]}

NewFirstStep ==
  [result |-> [cardCode |-> "", msgId |-> "", sessionId |-> ""],
   promise |-> "pending", reason |-> "none"]

\* the createParser callback of receiveDigitalPeopleFirstStep: the catch block
\* logs whatever the try block throws and the record is dropped
FirstStepOnEvent(a, ev) ==
  IF ev.kind \in {"done", "malformed"} THEN a
  ELSE IF ev.errorCode = "AGENT_PRIVATE_ONLY" THEN a
  ELSE [a EXCEPT
          !.result.sessionId = IF ev.sessionId # "" /\ @ = "" THEN ev.sessionId ELSE @,
          !.result.msgId = IF ev.msgId # "" /\ @ = "" THEN ev.msgId ELSE @,
          !.result.cardCode = IF ev.cards # <<>> THEN ev.cards[Len(ev.cards)] ELSE @]

\* stream.once("error", (err) => reject(err))
FirstStepOnStreamError(a) == Reject(a, "transport")

\* stream.once("close", ...): resolve when the three fields are known
FirstStepOnStreamClose(a) ==
  IF a.result.cardCode # "" /\ a.result.msgId # "" /\ a.result.sessionId # ""
    THEN Resolve(a) ELSE Reject(a, "missing")

InitF ==
  /\ stream = "open"
  /\ events = <<>>
  /\ trans = NoTrans
  /\ agg = NewFirstStep
  /\ EnvIdle("first", "first")
  /\ nFiles = 0
  /\ poller = NoPoller
  /\ norm = NoNorm

FirstEvent(ev) ==
  /\ mode \in {"first", "dp"} /\ stream = "open" /\ Len(events) < MaxEvents
  /\ events' = Append(events, ev)
  /\ agg' = FirstStepOnEvent(agg, ev)
  /\ UNCHANGED <<stream, trans, envVars, poller, norm>>

FirstError ==
  /\ mode \in {"first", "dp"} /\ stream = "open"
  /\ stream' = "errored"
  /\ agg' = FirstStepOnStreamError(agg)
  /\ UNCHANGED <<events, trans, envVars, poller, norm>>

FirstClose ==
  /\ mode \in {"first", "dp"} /\ stream \in {"open", "errored"}
  /\ stream' = "closed"
  /\ agg' = FirstStepOnStreamClose(agg)
  /\ UNCHANGED <<events, trans, envVars, poller, norm>>

NextF ==
  \/ \E ev \in EventsF : FirstEvent(ev)
  \/ FirstError
  \/ FirstClose

SpecF == InitF /\ [][NextF]_vars

(* -------------- digital-people video generation, streamed -------------- *)
\* createDigitalPeopleCompletionStream; trans holds the PassThrough, agg the
\* call of receiveDigitalPeopleFirstStep, poller the polling as the caller
\* observes it
\* sendProgress(content): a delta chunk, written unless the stream is closed
SendProgress(pt, content) == GuardedWrite(pt, DeltaFrame("uuid", <<content>>))

\* the final chunk of a finished generation: finish_reason "stop", usage,
\* video_url and poster
VideoFrame(firstStepResult) == StopFrame(ConvId(firstStepResult), <<"video">>)

\* the chunk of the catch block: `\n生成失败：${err.message}`, finish_reason
\* "stop", no usage
FailureFrame(err) == Frame("chunk", "uuid", FALSE, <<"failed", err>>, "stop", FALSE)

ReportFailureSilently(pt, err) == GuardedEnd(pt, DoneFrame)

\* catch (err) { write the failure chunk; end with the sentinel }, each
\* guarded by !transStream.closed
ReportFailure(pt, err) == GuardedEnd(GuardedWrite(pt, FailureFrame(err)), DoneFrame)

\* the polling as observed from outside pollDigitalPeopleTaskWithProgress:
\* the progress messages sent so far
NewProgressPoller == [pc |-> "polling", progress |-> 0]

\* the ways the task submission fails: the request, checkResult, a reply
\* without contents, a content that is not JSON
SubmitFailures == {"request", "refused", "nocontents", "badjson"}

\* the ways pollDigitalPeopleTaskWithProgress throws: its last attempt failed
\* (a failure of an earlier attempt is logged and the polling goes on), or
\* the attempts ran out
PollFailures == {"pollfailed", "timeout"}

\* the records the first step of a generation is fed: one that completes the
\* result, one that leaves it incomplete, one of a private agent
EventsG ==
  {FirstEv("", "s1", "m1", <<"c1">>), FirstEv("", "s2", "", <<>>),
   FirstEv("AGENT_PRIVATE_ONLY", "", "", <<>>)}

\* the referenced file of a generation: a document or an image that uploads,
\* a document whose upload fails
FilesG == {<<FALSE, "none">>, <<TRUE, "none">>, <<FALSE, "upload">>}

InitG ==
  /\ stream = "none"
  /\ events = <<>>
  /\ trans = NoTrans
  /\ agg = NewFirstStep
  /\ EnvIdle("dp", "upload")
  /\ nFiles \in {0, 1}
  /\ poller = NoPoller
  /\ norm = NoNorm

\* the uploads are awaited; then the PassThrough is created, the role-opening
\* chunk written, the inner async function started (it runs to its first
\* await, the connect) and the stream returned
DpUpload(files) ==
  /\ mode = "dp" /\ pc = "upload"
  /\ LET outs == [i \in 1..nFiles |-> UploadFile(files[i][1], files[i][2])]
     IN /\ uploads' = [uploads EXCEPT ![Attempt] =
                         [calls |-> nFiles,
                          ok |-> Cardinality({i \in 1..nFiles : outs[i] = "ok"})]]
        /\ IF AllUploaded(outs)
             THEN /\ trans' = [NoTrans EXCEPT !.ts =
                                 SendProgress(GuardedWrite(NewPassThrough, RoleOpenFrame),
                                              "starting")]
                  /\ pc' = "connect"
                  /\ result' = "stream"
                  /\ UNCHANGED <<sessions, errs, trace, waited, thrown>>
             ELSE /\ \E i \in 1..nFiles :
                       /\ outs[i] # "ok"
                       /\ Catch(<<outs[i], Attempt>>)
                  /\ UNCHANGED <<trans, result>>
  /\ UNCHANGED <<stream, events, agg, mode, nFiles, retryCount, sessionVar, sent,
                 removed, poller, norm>>

\* await new Promise((resolve) => setTimeout(resolve, RETRY_DELAY));
\* return createDigitalPeopleCompletionStream(..., retryCount + 1)
DpSleepDone ==
  /\ mode = "dp" /\ pc = "sleep"
  /\ retryCount' = retryCount + 1
  /\ trace' = Append(trace, "A")
  /\ pc' = "upload"
  /\ UNCHANGED <<transVars, mode, nFiles, sessionVar, sessions, uploads, sent, waited,
                 errs, thrown, removed, result, poller, norm>>

\* the connect settles (the session is bound to a const of the try block);
\* then the request is written, sendProgress("analysing") called and
\* receiveDigitalPeopleFirstStep(req) awaited
DpConnect(outcome) ==
  /\ mode = "dp" /\ pc = "connect"
  /\ IF outcome = "ok"
       THEN /\ sessions' = [sessions EXCEPT ![Attempt].opened = TRUE]
            /\ sent' = [sent EXCEPT ![Attempt] = <<MESSAGES, Refs(Attempt)>>]
            /\ stream' = "open"
            /\ agg' = NewFirstStep
            /\ trans' = [trans EXCEPT !.ts = SendProgress(@, "analysing")]
            /\ pc' = "firststep"
       ELSE /\ sessions' = [sessions EXCEPT ![Attempt].opened = (outcome = "request")]
            /\ trans' = [trans EXCEPT !.ts = ReportFailure(@, outcome)]
            /\ pc' = "reported"
            /\ UNCHANGED <<stream, agg, sent>>
  /\ UNCHANGED <<events, mode, nFiles, retryCount, sessionVar, uploads, trace, waited,
                 errs, thrown, removed, result, poller, norm>>

\* the first step settles: session.close(), sendProgress("submitting") and
\* the task submission is awaited; or the rejection is caught
DpFirstStepSettled ==
  /\ mode = "dp" /\ pc = "firststep" /\ agg.promise # "pending"
  /\ IF agg.promise = "fulfilled"
       THEN /\ sessions' = CloseSession(sessions, Attempt)
            /\ trans' = [trans EXCEPT !.ts = SendProgress(@, "submitting")]
            /\ pc' = "submit"
       ELSE /\ trans' = [trans EXCEPT !.ts = ReportFailure(@, agg.reason)]
            /\ pc' = "reported"
            /\ UNCHANGED sessions
  /\ UNCHANGED <<stream, events, agg, mode, nFiles, retryCount, sessionVar, uploads,
                 sent, trace, waited, errs, thrown, removed, result, poller, norm>>

\* the task submission settles: sendProgress("submitted"), then
\* pollDigitalPeopleTaskWithProgress runs to its first await, after its
\* announcement of the initial delay; or the failure is caught
DpSubmit(outcome) ==
  /\ mode = "dp" /\ pc = "submit"
  /\ IF outcome = "ok"
       THEN /\ trans' = [trans EXCEPT !.ts =
                           SendProgress(SendProgress(@, "submitted"), "waiting")]
            /\ poller' = NewProgressPoller
            /\ pc' = "poll"
       ELSE /\ trans' = [trans EXCEPT !.ts = ReportFailure(@, outcome)]
            /\ pc' = "reported"
            /\ UNCHANGED poller
  /\ UNCHANGED <<stream, events, agg, mode, nFiles, retryCount, sessionVar, sessions,
                 uploads, sent, trace, waited, errs, thrown, removed, result, norm>>

\* a status check of the poller reports progress: the step changed, or it is
\* a tenth attempt
DpProgress ==
  /\ mode = "dp" /\ pc = "poll" /\ poller.progress < MaxProgress
  /\ trans' = [trans EXCEPT !.ts = SendProgress(@, "progress")]
  /\ poller' = [poller EXCEPT !.progress = @ + 1]
  /\ UNCHANGED <<stream, events, agg, envVars, norm>>

\* the poller returns the video: the final chunk and the sentinel are written
\* and the conversation removed; or it throws and the failure is caught
DpPollSettled(outcome) ==
  /\ mode = "dp" /\ pc = "poll"
  /\ IF outcome = "ok"
       THEN /\ trans' = [trans EXCEPT !.ts =
                           GuardedEnd(GuardedWrite(@, VideoFrame(agg.result)), DoneFrame)]
            /\ removed' = RemoveConversation(removed, agg.result.sessionId)
            /\ pc' = "finished"
            /\ poller' = [poller EXCEPT !.pc = "returned"]
       ELSE /\ trans' = [trans EXCEPT !.ts = ReportFailure(@, outcome)]
            /\ pc' = "reported"
            /\ poller' = [poller EXCEPT !.pc = "thrown"]
            /\ UNCHANGED removed
  /\ UNCHANGED <<stream, events, agg, mode, nFiles, retryCount, sessionVar, sessions,
                 uploads, sent, trace, waited, errs, thrown, result, norm>>

NextG ==
  \/ \E files \in [1..nFiles -> FilesG] : DpUpload(files)
  \/ DpSleepDone
  \/ \E outcome \in {"ok", "connect", "request"} : DpConnect(outcome)
  \/ \E ev \in EventsG : FirstEvent(ev)
  \/ FirstError
  \/ FirstClose
  \/ DpFirstStepSettled
  \/ \E outcome \in {"ok"} \cup SubmitFailures : DpSubmit(outcome)
  \/ DpProgress
  \/ \E outcome \in {"ok"} \cup PollFailures : DpPollSettled(outcome)
  \/ TransStreamClosed
  \/ CallerClose

SpecG == InitG /\ [][NextG]_vars

(* ------------------------- URL normalisation --------------------------- *)
\* the pieces of the texts: scheme, host, path, query, fragment, and a unit
\* outside the URL pattern's classes
Pieces ==
  {<<"h", "t", "t", "p", ":", "/", "/">>, <<"h", "h", ".", "c", "n">>, <<"/", "p">>,
   <<"?", "k">>, <<"#", "f">>, <<"zh1">>}

RECURSIVE TextsOf(_)
TextsOf(n) ==
  IF n = 0 THEN {<<>>}
  ELSE TextsOf(n - 1) \cup {t \o p : t \in TextsOf(n - 1), p \in Pieces}

Texts == TextsOf(MaxPieces)

\* the replace call as a whole: it throws when new URL rejects a match
NormalizeUrls(text) ==
  LET urls == MatchUrlsFrom(text, 1)
  IN IF \E k \in 1..Len(urls) : UrlInvalid(urls[k]) THEN "TypeError"
     ELSE StripUrlQueries(text)

InitN ==
  /\ stream = "none"
  /\ events = <<>>
  /\ trans = NoTrans
  /\ agg = NewAgg
  /\ nFiles = 0
  /\ EnvIdle("norm", "norm")
  /\ poller = NoPoller
  /\ \E t \in Texts : norm = [text |-> t, outs |-> <<>>]

\* the normalisation is applied to the text, then to its own result
Normalize ==
  /\ mode = "norm"
  /\ Len(norm.outs) < 2
  /\ norm.outs # <<>> => norm.outs[Len(norm.outs)] # "TypeError"
  /\ LET input == IF norm.outs = <<>> THEN norm.text ELSE norm.outs[Len(norm.outs)]
     IN norm' = [norm EXCEPT !.outs = Append(@, NormalizeUrls(input))]
  /\ UNCHANGED <<transVars, envVars, poller>>

NextN == Normalize

SpecN == InitN /\ [][NextN]_vars

(* ------------------- observations used by the properties --------------- *)
IsTerminal(ev) == ev.kind = "json" /\ ev.msgStatus = "finished"
HasMalformed == \E i \in 1..Len(events) : events[i].kind = "malformed"
HasTerminal == \E i \in 1..Len(events) : IsTerminal(events[i])
\* the events are non-terminal ones followed by exactly one terminal event
EndsAtFirstTerminal ==
  /\ events # <<>>
  /\ ~HasMalformed
  /\ \A i \in 1..Len(events) : IsTerminal(events[i]) <=> i = Len(events)

IsAccepted(frame) == ~frame.late
\* what the consumer of the output stream can read
Accepted(ts) == SelectSeq(ts.calls, IsAccepted)

RECURSIVE ConcatContent(_)
ConcatContent(frames) ==
  IF frames = <<>> THEN <<>>
  ELSE (IF Head(frames).kind = "chunk" THEN Head(frames).content ELSE <<>>)
         \o ConcatContent(Tail(frames))

\* the text before the first replacement character
SafePrefix(text) ==
  IF \E i \in 1..Len(text) : text[i] = "FFFD"
    THEN SubSeq(text, 1, IndexOfRepl(text)) ELSE text
\* the part of the safe text beyond the n units already emitted
Increment(text, n) ==
  LET safe == SafePrefix(text)
  IN IF Len(safe) > n THEN SubSeq(safe, n + 1, Len(safe)) ELSE <<>>

\* the content chunks owed for a run of non-terminal events, n units emitted before
RECURSIVE OwedDeltas(_, _)
OwedDeltas(evs, n) ==
  IF evs = <<>> THEN <<>>
  ELSE LET ev == Head(evs)
           inc == IF ev.kind = "json" /\ ev.contentType = "text"
                    THEN Increment(PartsText(ev.contents), n) ELSE <<>>
       IN (IF inc # <<>> THEN <<inc>> ELSE <<>>)
            \o OwedDeltas(Tail(evs), n + Len(inc))

(* ------------------------------ properties ----------------------------- *)
\* C1: for a vendor sequence without malformed payload fed to both transcoders,
\* the concatenated delta contents of the streamed chunks equal the content of
\* the envelope the aggregate transcoder fulfilled with.
C1_StreamEqualsAggregate ==
  (agg.promise = "fulfilled" /\ ~HasMalformed /\ ~trans.ts.byCaller)
    => ConcatContent(Accepted(trans.ts)) = agg.data.content

\* C1 restricted to sequences in which nothing follows the first terminal event
C1_EqualUpToTerminal ==
  (agg.promise = "fulfilled" /\ ~HasMalformed /\ ~trans.ts.byCaller
     /\ (HasTerminal => EndsAtFirstTerminal))
    => ConcatContent(Accepted(trans.ts)) = agg.data.content

\* C2: once the sentinel has been passed to the output stream, no further
\* write or end-with-data is performed on it: a sentinel call is the last call.
C2_SentinelIsLastCall ==
  \A i \in 1..Len(trans.ts.calls) :
    trans.ts.calls[i].kind = "done" => i = Len(trans.ts.calls)

\* the sentinel does follow a premature end when no payload was malformed
SentinelOnPrematureEndWellFormed ==
  (stream \in {"errored", "closed"} /\ ~HasTerminal /\ ~HasMalformed
     /\ ~trans.ts.byCaller)
    => /\ trans.ts.ended
       /\ Accepted(trans.ts)[Len(Accepted(trans.ts))].kind = "done"

\* C3: when the transport errored or closed before any terminal event, the
\* output stream is ended and the last data written to it is the sentinel.
C3_SentinelOnPrematureEnd ==
  (stream \in {"errored", "closed"} /\ ~HasTerminal /\ ~trans.ts.byCaller)
    => /\ trans.ts.ended
       /\ Accepted(trans.ts) # <<>>
       /\ Accepted(trans.ts)[Len(Accepted(trans.ts))].kind = "done"

\* C4: for non-terminal events followed by one terminal event the output is the
\* role-open chunk, one non-empty content chunk per non-terminal text event with
\* a non-empty increment in receipt order, one stop chunk with usage, the sentinel.
C4_StreamingOrder ==
  (mode = "pair" /\ EndsAtFirstTerminal /\ ~trans.ts.byCaller) =>
    LET out == Accepted(trans.ts)
        owed == OwedDeltas(SubSeq(events, 1, Len(events) - 1), 0)
        n == Len(owed)
    IN /\ Len(out) = n + 3
       /\ out[1] = RoleOpenFrame
       /\ \A i \in 1..n : /\ out[i + 1].kind = "chunk"
                          /\ out[i + 1].content = owed[i]
                          /\ out[i + 1].content # <<>>
                          /\ out[i + 1].finish = "null"
                          /\ ~out[i + 1].role
       /\ out[n + 2].kind = "chunk" /\ out[n + 2].finish = "stop" /\ out[n + 2].usage
       /\ out[n + 3] = DoneFrame

C4_Witness ==
  /\ mode = "pair" /\ EndsAtFirstTerminal /\ ~trans.ts.byCaller
  /\ Len(events) = 3
  /\ Len(Accepted(trans.ts)) = 5

\* C5: the completion callback has been invoked exactly once when the stream
\* is over, whichever way it ended.
C5_CallbackExactlyOnce ==
  (mode = "pair" /\ stream = "closed") => Len(trans.cb) = 1

\* attempts that ended in the catch handler
Failed(a) == errs[a] # NoError
FailedAttempts == {a \in Attempts : Failed(a)}
\* trace is attempt, sleep, attempt, ..., attempt
Alternates(tr) ==
  /\ Len(tr) % 2 = 1
  /\ \A i \in 1..Len(tr) : tr[i] = IF i % 2 = 1 THEN "A" ELSE "S"
\* attempt a has returned or thrown (in streaming mode: its stream is over)
AttemptOver(a) ==
  \/ a < Attempt
  \/ a = Attempt /\ pc \in {"sleep", "failed"}
  \/ a = Attempt /\ mode = "agg" /\ pc = "done"
  \/ a = Attempt /\ mode = "stream" /\ pc = "done" /\ stream = "closed"

\* C6: every session opened by an attempt has been closed when the attempt is
\* over, on every exit path.
C6_SessionClosedWhenAttemptOver ==
  \A a \in Attempts :
    (sessions[a].opened /\ AttemptOver(a)) => sessions[a].closes >= 1

\* C7: close() is invoked at most once on each opened session.
C7_CloseAtMostOnce ==
  \A a \in Attempts : sessions[a].closes <= 1

\* C8: an aggregate-mode request whose attempts fail k <= MAX_RETRY_COUNT times
\* and then succeed returns the result after k+1 attempts and k sleeps, one
\* sleep between consecutive attempts, none before the first or after the last.
C8_SucceedsAfterKFailures ==
  (mode = "agg" /\ pc = "done" /\ Cardinality(FailedAttempts) <= MAX_RETRY_COUNT) =>
    LET k == Cardinality(FailedAttempts)
    IN /\ result = "answer"
       /\ FailedAttempts = 1..k
       /\ Attempt = k + 1
       /\ Len(trace) = 2 * k + 1
       /\ Alternates(trace)
       /\ waited = k * RETRY_DELAY

C8_Witness ==
  /\ mode = "agg" /\ pc = "done"
  /\ Cardinality(FailedAttempts) = MAX_RETRY_COUNT
  /\ Len(trace) = 2 * MAX_RETRY_COUNT + 1

\* C9: when every attempt fails the envelope stops: retryCount stays within
\* 0..MAX_RETRY_COUNT, no sleep follows the last attempt, and the request is
\* rejected with the error of the last attempt.
C9_ExhaustedRethrowsLast ==
  /\ retryCount \in 0..MAX_RETRY_COUNT
  /\ pc = "failed" =>
       /\ retryCount = MAX_RETRY_COUNT
       /\ FailedAttempts = 1..Attempt
       /\ Len(trace) = 2 * MAX_RETRY_COUNT + 1
       /\ trace[Len(trace)] = "A"
       /\ thrown = errs[Attempt]
       /\ thrown[2] = Attempt

C9_Witness ==
  /\ pc = "failed"
  /\ thrown[2] = MAX_RETRY_COUNT + 1

RECURSIVE SumUploads(_)
SumUploads(a) == IF a = 0 THEN 0 ELSE uploads[a].calls + SumUploads(a - 1)

\* C10: a retry resends the messages and the reference set of the previous
\* attempt unchanged and does not upload again a file already uploaded.
C10_RetryRedoesOnlyTransport ==
  /\ \A a, b \in Attempts : (sent[a] # <<>> /\ sent[b] # <<>>) => sent[a] = sent[b]
  /\ SumUploads(MAX_RETRY_COUNT + 2) <= nFiles

\* C11: a failure of the file reference pipeline is a hard failure: it is
\* followed by no backoff sleep and no further attempt.
C11_ReferenceFailureIsHard ==
  \A a \in Attempts :
    errs[a][1] \in FileFailures => (Len(trace) = 2 * a - 1 /\ Attempt = a)

\* C12: a transport session is opened in an attempt only after every uploadFile
\* call of that attempt has succeeded; after a failed upload none is opened.
C12_SessionAfterUploads ==
  \A a \in Attempts :
    /\ sessions[a].opened => (uploads[a].calls = nFiles /\ uploads[a].ok = nFiles)
    /\ uploads[a].ok < uploads[a].calls => ~sessions[a].opened

C12_Witness ==
  /\ nFiles = 2
  /\ uploads[1] = [calls |-> 2, ok |-> 1]
  /\ ~sessions[1].opened
  /\ sessions[2].opened
  /\ uploads[2] = [calls |-> 2, ok |-> 2]

RECURSIVE Flatten(_)
Flatten(seqs) == IF seqs = <<>> THEN <<>> ELSE Head(seqs) \o Flatten(Tail(seqs))

\* once settled, the result of the aggregate transcoder keeps its state and reason
StaysSettled ==
  agg.promise # "pending" => (agg'.promise = agg.promise /\ agg'.reason = agg.reason)

\* the three settlements of the aggregate result, given the events and the
\* transport state
AggSettlement ==
  /\ HasTerminal => agg.promise = "fulfilled"
  /\ (stream = "errored" /\ ~HasTerminal) => agg.promise = "rejected"
  /\ (stream = "closed" /\ ~HasTerminal /\ agg.reason # "transport") =>
       /\ agg.promise = "fulfilled"
       /\ agg.data.content = Flatten(OwedDeltas(events, 0))
  /\ (stream = "open" /\ ~HasTerminal /\ ~HasMalformed) => agg.promise = "pending"

ReturnedAfterPendings ==
  poller.pc = "returned" /\ poller.allPendingBefore

\* C14: pending at checks 1..n-1 and completed with a video at check n makes
\* the poller return after exactly n checks, one initial-delay sleep before the
\* first and n-1 interval sleeps between them.
C14_SucceedsAtCheckN ==
  ReturnedAfterPendings =>
    LET n == poller.checks
        v == poller.variant
    IN /\ n \in 1..MaxAttempts(v)
       /\ poller.attempt = n - 1
       /\ poller.initialSleeps = 1
       /\ poller.sleeps = n - 1
       /\ poller.slept =
            IF v = "plain" THEN POLL_INITIAL_DELAY + (n - 1) * POLL_INTERVAL
            ELSE PROGRESS_INITIAL_DELAY + (n - 1) * PROGRESS_POLL_INTERVAL

C14_Witness ==
  /\ ReturnedAfterPendings
  /\ poller.variant = "plain"
  /\ poller.checks = POLL_MAX_ATTEMPTS
  /\ poller.sleeps = POLL_MAX_ATTEMPTS - 1

\* C15: a provider-reported failed status ends polling at that check with a
\* Failed outcome, no further sleep or check, distinct from the Timeout outcome
\* of maxAttempts pending checks.
C15_ProviderFailureEndsPolling ==
  /\ poller.pc # "none" /\ poller.last = "failed" =>
       (poller.pc = "thrown" /\ poller.outcome = <<"pollfailed", "failed">>)
  /\ (poller.pc = "thrown" /\ poller.allPendingBefore /\ poller.last = "pending") =>
       (poller.checks = MaxAttempts(poller.variant) /\ poller.outcome = <<"timeout">>)

\* polling goes on after a sleep: the next step is another check
SleepThenCheck ==
  poller.pc = "sleep" =>
    (poller'.pc = "check" /\ poller'.attempt = poller.attempt + 1
       /\ poller'.sleeps = poller.sleeps + 1)

\* C16: a transiently failing status request at a check that is not the last
\* allowed one is followed by one interval sleep and another check; at the last
\* allowed check polling ends with a Failed outcome, not a Timeout.
C16_TransientFailureRetried ==
  /\ [](poller.pc # "none" /\ poller.last \in {"reqerror", "invalid"} =>
          IF poller.checks < MaxAttempts(poller.variant)
            THEN \/ poller.pc = "sleep" /\ poller.sleeps = poller.checks - 1
                 \/ poller.pc \in {"check", "await"} /\ poller.sleeps = poller.checks
            ELSE poller.pc = "thrown" /\ poller.outcome = <<"pollfailed", poller.last>>)
  /\ [][SleepThenCheck]_vars

C16_Witness ==
  /\ poller.pc = "thrown"
  /\ poller.last = "reqerror"
  /\ poller.checks = PROGRESS_MAX_ATTEMPTS
  /\ poller.variant = "progress"

\* C17: after three pending checks and a check that succeeds with an asset URL,
\* the poller returns that URL without its query string, after the initial
\* delay plus three intervals.
C17_ReturnsStrippedUrl ==
  (ReturnedAfterPendings /\ poller.checks = 4) =>
    /\ poller.videoUrl = UrlWithoutSearch(poller.videoUrl)
    /\ poller.slept =
         IF poller.variant = "plain" THEN POLL_INITIAL_DELAY + 3 * POLL_INTERVAL
         ELSE PROGRESS_INITIAL_DELAY + 3 * PROGRESS_POLL_INTERVAL

\* a deletion has been issued: the request has completed, its last attempt
\* did not fail, and no sleep follows it
CompletedUnaffected ==
  /\ pc = "done"
  /\ result = IF mode = "agg" THEN "answer" ELSE "stream"
  /\ errs[Attempt] = NoError
  /\ thrown = NoError
  /\ trace[Len(trace)] = "A"

\* C18: after a successful completion one conversation deletion is issued and
\* not awaited; whether it succeeds or fails the returned result is unchanged,
\* no retry is triggered, and the deletion is not issued again.
C18_DeletionFireAndForget ==
  /\ (mode = "agg" /\ pc = "done") => Len(removed) = 1
  /\ (mode = "stream" /\ HasTerminal) => Len(removed) >= 1
  /\ removed # <<>> => CompletedUnaffected
  /\ Len(removed) <= 1

\* C18 without the repeated issue: everything but the last conjunct
DeletionNeverPropagates ==
  /\ (mode = "agg" /\ pc = "done") => Len(removed) = 1
  /\ (mode = "stream" /\ HasTerminal) => Len(removed) >= 1
  /\ removed # <<>> => CompletedUnaffected
  /\ mode = "agg" => Len(removed) <= 1

\* text[lo .. hi) of a 0-based text, empty when lo >= hi
Range(text, lo, hi) ==
  LET h == Min(hi, Len(text))
  IN IF lo >= h THEN <<>> ELSE [k \in 1..(h - lo) |-> text[lo + k]]

HasMarker(text) == \E k \in 1..Len(text) : text[k] = "FFFD"

\* the part of an event's text selected for emission when n units were
\* emitted before: up to the marker if there is one, else to the end
SelectedText(ev, n) ==
  LET text == PartsText(ev.contents)
      i == IndexOfRepl(text)
  IN IF HasMarker(text) THEN Range(text, Min(n, i), i) ELSE Range(text, n, Len(text))

\* what an event hands on: its selected text, with URL queries removed for a
\* text2image event, and the terminal suffixes
HandedOn(ev, n) ==
  LET sel == SelectedText(ev, n)
  IN (IF ev.contentType = "text2image" THEN StripUrlQueries(sel) ELSE sel)
       \o (IF IsTerminal(ev) THEN TerminalSuffix(ev) ELSE <<>>)

\* neither the aggregate content nor any written chunk holds the marker
NoMarkerAnywhere ==
  /\ ~HasMarker(agg.data.content)
  /\ \A k \in 1..Len(trans.ts.calls) : ~HasMarker(trans.ts.calls[k].content)

\* a step that processes one well-formed event adds to the aggregate content
\* and writes as chunk exactly the text selected from that event
EmitsSelectedText ==
  (Len(events') = Len(events) + 1 /\ events'[Len(events')].kind = "json") =>
    LET ev == events'[Len(events')]
        fresh == SubSeq(trans'.ts.calls, Len(trans.ts.calls) + 1, Len(trans'.ts.calls))
    IN /\ \A k \in 1..Len(fresh) :
            fresh[k].kind = "chunk" => fresh[k].content = HandedOn(ev, Len(trans.content))
       /\ agg'.data.content \in
            {agg.data.content, agg.data.content \o HandedOn(ev, Len(agg.data.content))}

\* C19: neither an emitted delta nor the accumulated aggregate content ever
\* holds U+FFFD or text at or after it; what an event contributes is the text
\* from min(alreadyEmitted, marker) up to the marker, or from alreadyEmitted to
\* the end when there is no marker.
C19_NoReplacementCharacter ==
  /\ []NoMarkerAnywhere
  /\ [][EmitsSelectedText]_vars

\* the final text of a terminal event: its assistant text parts marked finished
FinalParts(contents) ==
  SelectSeq(contents,
            LAMBDA part : part.role = "assistant" /\ part.contentType = "text"
                            /\ part.status = "finished")
FinalText(contents) ==
  Flatten([k \in 1..Len(FinalParts(contents)) |-> FinalParts(contents)[k].content])

\* a step of the law aggregate transcoder that processes a terminal event
\* leaves the reconstructed final text when the event is not incremental and
\* has contents, and else the accumulated content plus the terminal chunk
LawTerminalContent ==
  (mode = "law" /\ Len(events') = Len(events) + 1 /\ IsTerminal(events'[Len(events')])) =>
    LET ev == events'[Len(events')]
    IN agg'.data.content =
         IF ev.incremental = FALSE /\ Len(ev.contents) > 0
           THEN FinalText(ev.contents) \o TerminalSuffix(ev)
           ELSE agg.data.content \o HandedOn(ev, Len(agg.data.content))

\* C20: in law and solve aggregate mode a terminal event with incremental=false
\* and non-empty contents makes the content exactly the text of its assistant,
\* text, finished parts plus the suffixes, whatever was accumulated; every
\* other terminal event appends its chunk.
C20_LawFinalContentReplaces ==
  [][LawTerminalContent]_vars

C20_Witness ==
  /\ mode = "law"
  /\ Len(events) = 2
  /\ events[1] = LawEv(cAB, "text", "generating", TRUE, <<>>, TRUE)
  /\ events[2] = LawEv(cMixed, "text", "finished", TRUE, <<>>, FALSE)
  /\ agg.promise = "fulfilled"
  /\ agg.data.content = <<"zh2">>

\* v ends with w
EndsWith(v, w) ==
  Len(w) <= Len(v) /\ SubSeq(v, Len(v) - Len(w) + 1, Len(v)) = w

\* the last event of the current attempt is a terminal event flagged with
\* canShare=false or an errorCode, the first terminal one, after well-formed
\* events only
FlaggedTerminalLast ==
  /\ mode \in {"agg", "stream"}
  /\ EndsAtFirstTerminal
  /\ LET ev == events[Len(events)] IN ~ev.canShare \/ ev.errorCode # <<>>

\* C21: a well-formed terminal event carrying canShare=false or an errorCode
\* yields a normal terminal response whose content embeds the notice, and causes
\* no rejection, no backoff sleep and no further attempt.
C21_BusinessErrorNotRetried ==
  FlaggedTerminalLast =>
    LET ev == events[Len(events)]
        notice == (IF ~ev.canShare THEN NOTICE ELSE <<>>)
                    \o (IF ev.errorCode # <<>> THEN ErrorSuffix(ev.errorCode) ELSE <<>>)
        out == Accepted(trans.ts)
    IN /\ errs[Attempt] = NoError
       /\ thrown = NoError
       /\ pc \in {"receive", "done"}
       /\ trace[Len(trace)] = "A"
       /\ mode = "agg" =>
            /\ agg.promise = "fulfilled"
            /\ EndsWith(agg.data.content, notice)
       /\ (mode = "stream" /\ ~trans.ts.byCaller) =>
            /\ Len(out) >= 2
            /\ out[Len(out)] = DoneFrame
            /\ out[Len(out) - 1].finish = "stop"
            /\ EndsWith(out[Len(out) - 1].content, notice)

C21_Witness ==
  /\ FlaggedTerminalLast
  /\ mode = "agg" /\ pc = "done" /\ result = "answer"
  /\ retryCount = 0
  /\ EndsWith(agg.data.content, NOTICE \o ErrorSuffix(E1))

\* C22: generateImages never returns successfully with an empty list of image
\* URLs, whether the stream reached a terminal event or closed without one.
C22_NoEmptyImageList ==
  (mode = "images" /\ pc = "done") => result # <<>>

\* a terminal event never lets generateImages return an empty list
NoEmptyImageListAfterTerminal ==
  (mode = "images" /\ pc = "done" /\ HasTerminal) => result # <<>>

\* the current attempt received a malformed payload before any terminal event
MalformedBeforeTerminal ==
  /\ mode \in {"agg", "stream"}
  /\ \E i \in 1..Len(events) :
       /\ events[i].kind = "malformed"
       /\ \A j \in 1..(i - 1) : ~IsTerminal(events[j])

\* the attempt whose request opened the current response stream
StreamAttempt == MaxOf({a \in Attempts : sent[a] # <<>>})

\* attempt a failed and the envelope went on: a later attempt runs, or the
\* envelope sleeps before one, or a was the last attempt and its error is thrown
RetriedWhileAttemptsRemain(a) ==
  \/ a < Attempt
  \/ pc = "sleep" /\ a <= MAX_RETRY_COUNT
  \/ pc = "failed" /\ a = MAX_RETRY_COUNT + 1 /\ thrown = errs[a]

\* the attempt that received the stream is aborted with error kind (its await
\* is about to throw, or it has failed with that error and is retried)
AbortedAndRetried(kind) ==
  LET a == StreamAttempt
  IN \/ a = Attempt /\ pc = "receive"
     \/ errs[a] = <<kind, a>> /\ RetriedWhileAttemptsRemain(a)

\* C23: a malformed vendor payload aborts the current attempt and the retry
\* envelope runs a new attempt while attempts remain, in aggregate mode and in
\* streaming mode alike.
C23_MalformedPayloadRetried ==
  MalformedBeforeTerminal => AbortedAndRetried("invalid")

\* in aggregate mode a malformed payload is retried
MalformedPayloadRetriedAggregate ==
  (MalformedBeforeTerminal /\ mode = "agg") =>
    (AbortedAndRetried("invalid") /\ agg.promise = "rejected")

\* the response stream of the current attempt failed before any terminal event
TransportFailedMidStream ==
  /\ mode \in {"agg", "stream"}
  /\ stream = "errored"
  /\ ~HasTerminal /\ ~HasMalformed

\* C24: a transport failure is retried by the envelope while attempts remain,
\* both at connect and while the response stream is being received, in
\* aggregate mode and in streaming mode alike.
C24_TransportFailureRetried ==
  /\ \A a \in Attempts : errs[a][1] = "connect" => RetriedWhileAttemptsRemain(a)
  /\ TransportFailedMidStream => AbortedAndRetried("transport")

\* in aggregate mode a transport failure is retried wherever it happens
TransportFailureRetriedAggregate ==
  /\ \A a \in Attempts : errs[a][1] = "connect" => RetriedWhileAttemptsRemain(a)
  /\ (TransportFailedMidStream /\ mode = "agg") =>
       (AbortedAndRetried("transport") /\ agg.promise = "rejected")

\* C25: for the law and solve variants, for every vendor sequence without a
\* malformed payload in which nothing follows the first terminal event, the
\* concatenated delta contents of the streamed chunks equal the content of the
\* envelope the aggregate transcoder fulfilled with.
C25_LawStreamEqualsAggregate ==
  (mode = "law" /\ agg.promise = "fulfilled" /\ ~HasMalformed /\ ~trans.ts.byCaller
     /\ (HasTerminal => EndsAtFirstTerminal))
    => ConcatContent(Accepted(trans.ts)) = agg.data.content

\* the two agree when every non-terminal event carries contentType text and the
\* terminal event is incremental
LawEqualOnIncrementalText ==
  (mode = "law" /\ agg.promise = "fulfilled" /\ ~HasMalformed /\ ~trans.ts.byCaller
     /\ (HasTerminal => EndsAtFirstTerminal)
     /\ \A i \in 1..Len(events) :
          /\ events[i].kind = "json" => events[i].incremental
          /\ (events[i].kind = "json" /\ ~IsTerminal(events[i])) => events[i].contentType = "text")
    => ConcatContent(Accepted(trans.ts)) = agg.data.content

\* the matches of the URL pattern in a text that carry a query string
UrlsWithQuery(text) ==
  LET urls == MatchUrlsFrom(text, 1)
  IN {k \in 1..Len(urls) : UrlParts(urls[k]).query # <<>>}

\* C26: the URL normalisation is idempotent: applied to its own output it
\* changes nothing, and no URL in its output carries a query string.
C26_NormalizationIdempotent ==
  (mode = "norm" /\ norm.outs # <<>> /\ norm.outs[1] # "TypeError") =>
    /\ UrlsWithQuery(norm.outs[1]) = {}
    /\ Len(norm.outs) = 2 => norm.outs[2] = norm.outs[1]

C26_Witness ==
  /\ mode = "norm"
  /\ UrlsWithQuery(norm.text) # {}
  /\ Len(norm.outs) = 2
  /\ norm.outs[1] # norm.text
  /\ norm.outs[2] = norm.outs[1]

\* C27: the content-safety scan poll of uploadFile follows the control flow of
\* the generation-job poller: an initial delay precedes the first check, a
\* sleep separates consecutive checks, and a failed status request is followed
\* by another iteration instead of ending the poll.
C27_ScanFollowsPollerControlFlow ==
  poller.variant = "scan" =>
    /\ poller.checks >= 1 => poller.initialSleeps = 1
    /\ poller.sleeps >= poller.checks - 1
    /\ (poller.last = "reqerror" /\ poller.checks = 1) => poller.pc # "thrown"

\* the scan poll never sleeps and ends within its time limit plus one request
ScanRunsWithoutSleeping ==
  poller.variant = "scan" =>
    /\ poller.initialSleeps = 0 /\ poller.sleeps = 0
    /\ poller.elapsed <= SCAN_TIME_LIMIT + SCAN_REQUEST_TIMEOUT
    /\ poller.last = "reqerror" => poller.pc = "thrown"

\* every check of the poller so far reported pending
AllPending == poller.allPendingBefore /\ poller.last = "pending"

\* C28: the generation-job poller issues no status check before the initial
\* delay has elapsed, has at most one status check outstanding, never issues
\* more than maxAttempts checks, and when all maxAttempts checks report pending
\* it ends with the Timeout outcome without sleeping after the last check.
C28_SequentialBoundedPolling ==
  poller.pc \in {"initial", "check", "await", "sleep", "returned", "thrown"}
    /\ poller.variant \in PollVariants =>
    LET plain == poller.variant = "plain"
        maxAttempts == IF plain THEN POLL_MAX_ATTEMPTS ELSE PROGRESS_MAX_ATTEMPTS
        initialDelay == IF plain THEN POLL_INITIAL_DELAY ELSE PROGRESS_INITIAL_DELAY
        pollInterval == IF plain THEN POLL_INTERVAL ELSE PROGRESS_POLL_INTERVAL
    IN /\ poller.issued >= 1 => (poller.initialSleeps = 1 /\ poller.slept >= initialDelay)
       /\ poller.issued - poller.checks = (IF poller.pc = "await" THEN 1 ELSE 0)
       /\ poller.issued <= maxAttempts
       /\ (poller.checks = maxAttempts /\ AllPending) =>
            /\ poller.pc = "thrown" /\ poller.outcome = <<"timeout">>
            /\ poller.sleeps = maxAttempts - 1
            /\ poller.slept = initialDelay + (maxAttempts - 1) * pollInterval

C28_Witness ==
  /\ poller.pc = "thrown" /\ poller.variant = "plain"
  /\ poller.issued = POLL_MAX_ATTEMPTS /\ poller.checks = POLL_MAX_ATTEMPTS
  /\ AllPending
  /\ poller.outcome = <<"timeout">>

\* v is a prefix of w
IsPrefix(v, w) == Len(v) <= Len(w) /\ SubSeq(w, 1, Len(v)) = v

\* the texts of the vendor records delivered so far
EventTexts ==
  LET recs == SelectSeq(events, LAMBDA ev : ev.kind = "json")
  IN [k \in 1..Len(recs) |-> PartsText(recs[k].contents)]

\* the payloads are cumulative: each text extends the text before it, a
\* replacement marker standing for the unit that is still incomplete
Cumulative ==
  /\ ~HasMalformed
  /\ \A k \in 2..Len(EventTexts) : IsPrefix(SafePrefix(EventTexts[k - 1]), EventTexts[k])

\* units of the vendor texts; each occurs at one position of a text only
VendorUnits == {"zh1", "zh2"}

\* no vendor unit occurs twice in text
EmittedOnce(text) ==
  \A i, j \in 1..Len(text) : (text[i] \in VendorUnits /\ text[i] = text[j]) => i = j

NonTextContributesNothing ==
  (Len(events') = Len(events) + 1
     /\ events'[Len(events')].kind = "json"
     /\ ~IsTerminal(events'[Len(events')])
     /\ events'[Len(events')].contentType # "text") =>
    /\ agg'.data.content = agg.data.content
    /\ trans'.ts.calls = trans.ts.calls

\* C30: a non-terminal event contributes content, streamed or accumulated, only
\* when its contentType is text; with any other or with a missing contentType
\* it contributes nothing, in the chat, law and solve variants.
C30_OnlyTextContributes ==
  [][NonTextContributesNothing]_vars

\* in the law and solve variants a non-terminal event contributes nothing when
\* its contentType is present and not text
LawPresentNonTextContributesNothing ==
  [][\/ Len(events') = Len(events) + 1 /\ events'[Len(events')].contentType = ""
     \/ NonTextContributesNothing]_vars

\* the terminal unit owed for a terminal event when n units were emitted
\* before: the remaining increment, then the notice, then the error suffix
TerminalUnit(ev, n) ==
  LET sel == SelectedText(ev, n)
  IN (IF ev.contentType = "text2image" THEN StripUrlQueries(sel) ELSE sel)
       \o (IF ~ev.canShare THEN [i \in 1..NOTICE_LEN |-> "nt"] ELSE <<>>)
       \o (IF ev.errorCode # <<>>
             THEN [i \in 1..ERROR_PREFIX_LEN |-> "sf"] \o ev.errorCode ELSE <<>>)

\* text holds a unit of the notice or of the error suffix
HasNoticeOrSuffix(text) == \E k \in 1..Len(text) : text[k] \in {"nt", "sf"}

\* the calls a step adds to the output stream
NewCalls == SubSeq(trans'.ts.calls, Len(trans.ts.calls) + 1, Len(trans'.ts.calls))

\* a step that processes a vendor record builds the terminal unit for a
\* terminal record, in the aggregate content and in the stop chunk, and adds
\* neither notice nor suffix for a non-terminal record
TerminalUnitBuilt ==
  (mode = "pair" /\ Len(events') = Len(events) + 1 /\ events'[Len(events')].kind = "json") =>
    LET ev == events'[Len(events')]
    IN IF IsTerminal(ev)
         THEN /\ agg'.data.content =
                   agg.data.content \o TerminalUnit(ev, Len(agg.data.content))
              /\ ~trans.ts.closed =>
                   /\ Len(NewCalls) = 2
                   /\ NewCalls[1].finish = "stop"
                   /\ NewCalls[1].content = TerminalUnit(ev, Len(trans.content))
                   /\ NewCalls[2].kind = "done"
         ELSE /\ IsPrefix(agg.data.content, agg'.data.content)
              /\ ~HasNoticeOrSuffix(SubSeq(agg'.data.content, Len(agg.data.content) + 1,
                                           Len(agg'.data.content)))
              /\ \A k \in 1..Len(NewCalls) : ~HasNoticeOrSuffix(NewCalls[k].content)

\* C31: at a terminal event the terminal unit is the remaining text increment,
\* then the moderation notice when canShare is false, then the error-code
\* suffix when errorCode is present, in aggregate and streaming mode alike;
\* neither is added for a non-terminal event.
C31_TerminalUnitConstruction ==
  [][TerminalUnitBuilt]_vars

C31_Witness ==
  /\ mode = "pair"
  /\ Len(events) = 2
  /\ events[1] = Ev(cA, "text", "generating", TRUE, <<>>)
  /\ events[2] = Ev(cAB, "text", "finished", FALSE, E1)
  /\ agg.data.content = <<"zh1", "zh2">> \o NOTICE \o [i \in 1..ERROR_PREFIX_LEN |-> "sf"] \o E1
  /\ ConcatContent(Accepted(trans.ts)) = agg.data.content

\* the vendor records processed so far that carry both a sessionId and a msgId
WithBothIds ==
  SelectSeq(events, LAMBDA ev : ev.kind = "json" /\ ev.sessionId # "" /\ ev.msgId # "")

\* C32: in aggregate mode the envelope id is sessionId-msgId of the first
\* vendor event that carries both fields and never changes afterwards; it is
\* empty only if no event carrying both fields was processed.
C32_EnvelopeIdFirstAvailable ==
  mode = "pair" =>
    agg.data.id = IF WithBothIds = <<>> THEN <<>>
                  ELSE <<WithBothIds[1].sessionId, WithBothIds[1].msgId>>

C32_Witness ==
  /\ mode = "pair"
  /\ Len(events) = 3
  /\ events[1] = EvId("s2", "", "generating")
  /\ events[2] = EvId("s1", "m1", "generating")
  /\ events[3] = EvId("s2", "m2", "finished")
  /\ agg.data.id = <<"s1", "m1">>
  /\ agg.promise = "fulfilled"

\* the caller has closed the output stream of the streaming attempt
ClosedByCaller == mode = "stream" /\ trans # NoTrans /\ trans.ts.byCaller

\* steps around a close by the caller: the close leaves the upstream response
\* stream and its events alone; afterwards no call is made on the output
\* stream; a terminal record processed afterwards runs the completion callback
\* (session close and conversation removal)
AfterCallerClose ==
  /\ (mode = "stream" /\ trans # NoTrans /\ ~trans.ts.byCaller /\ trans'.ts.byCaller) =>
       (stream' = stream /\ events' = events /\ pc' = pc)
  /\ ClosedByCaller => trans'.ts.calls = trans.ts.calls
  /\ (ClosedByCaller /\ Len(events') = Len(events) + 1 /\ IsTerminal(events'[Len(events')])) =>
       /\ trans'.cb = Append(trans.cb, events'[Len(events')].sessionId)
       /\ Len(removed') = Len(removed) + 1
       /\ sessions'[Attempt].closes = sessions[Attempt].closes + 1

\* C33: when the caller closes the output stream while the upstream exchange is
\* in flight, the streaming transcoder performs no further write on it, the
\* upstream request is not aborted, vendor events keep being consumed, and the
\* completion callback still runs when the terminal event arrives.
C33_CallerCloseDoesNotAbort ==
  [][AfterCallerClose]_vars

C33_Witness ==
  /\ ClosedByCaller
  /\ trans.ts.calls = <<RoleOpenFrame>>
  /\ Len(events) = 2
  /\ events[1] = Ev(cA, "text", "generating", TRUE, <<>>)
  /\ IsTerminal(events[2])
  /\ Len(trans.cb) = 1
  /\ Len(removed) = 1
  /\ sessions[Attempt].closes = 1

\* once the aggregate result is fulfilled, its envelope does not change
EnvelopeFinal ==
  (mode \in {"pair", "law"} /\ agg.promise = "fulfilled") => agg'.data = agg.data

\* C34: the aggregate envelope handed to the caller is final at resolution:
\* vendor events processed after the first terminal event change neither its
\* content nor its id.
C34_EnvelopeFinalAtResolution ==
  [][EnvelopeFinal]_vars

\* only a step that processes a vendor record changes the envelope
EnvelopeChangedByRecordsOnly ==
  [][(mode \in {"pair", "law"} /\ events' = events) => agg'.data = agg.data]_vars

\* the output stream has been returned to the caller
StreamReturned == mode = "stream" /\ pc = "done"

\* C35: in streaming mode, once an output stream has been returned to the
\* caller the retry envelope never starts another attempt for that request: a
\* single attempt produced the stream, and the stream carries exactly one
\* role-open chunk.
C35_NoRetryAfterStreamReturned ==
  /\ [](StreamReturned =>
          /\ result = "stream"
          /\ {a \in Attempts : sent[a] # <<>>} = {Attempt}
          /\ trace[Len(trace)] = "A"
          /\ Len(SelectSeq(trans.ts.calls, LAMBDA f : f.kind = "chunk" /\ f.role)) = 1
          /\ trans.ts.calls[1].role)
  /\ [][StreamReturned =>
          (pc' = "done" /\ retryCount' = retryCount /\ trace' = trace /\ sent' = sent
             /\ errs' = errs)]_vars

C35_Witness ==
  /\ StreamReturned
  /\ retryCount = 1
  /\ stream = "errored"
  /\ Len(events) = 1 /\ events[1].kind = "malformed"

\* the exchange ended at its terminal record and its conversation removal was started
RemovalAfterTerminal ==
  mode \in {"agg", "stream"} /\ EndsAtFirstTerminal /\ removed # <<>>

\* C36: for the same vendor event sequence aggregate mode and streaming mode
\* request deletion of the same conversation: removeConversation receives the
\* vendor sessionId of the exchange in createCompletion and in
\* createCompletionStream.
C36_SameConversationRemoved ==
  RemovalAfterTerminal =>
    removed[Len(removed)].id = events[Len(events)].sessionId

\* streaming mode passes the sessionId of the terminal record
StreamRemovesSessionId ==
  (RemovalAfterTerminal /\ mode = "stream") =>
    removed[Len(removed)].id = events[Len(events)].sessionId

\* aggregate mode passes the envelope id, sessionId-msgId
AggRemovesEnvelopeId ==
  (RemovalAfterTerminal /\ mode = "agg") =>
    removed[Len(removed)].id = <<events[1].sessionId, events[1].msgId>>

\* a record with errorCode AGENT_PRIVATE_ONLY was processed
HasPrivateOnly ==
  \E k \in 1..Len(events) :
    events[k].kind = "json" /\ events[k].errorCode = "AGENT_PRIVATE_ONLY"

\* C37: when receiveDigitalPeopleFirstStep processes a vendor event with
\* errorCode AGENT_PRIVATE_ONLY, the first step fails with the agent-access
\* error built for that event, rather than completing normally or failing
\* with a different error.
C37_PrivateAgentFailsFirstStep ==
  (mode = "first" /\ HasPrivateOnly /\ stream = "closed") =>
    (agg.promise = "rejected" /\ agg.reason = "agentaccess")

\* the agent-access error never becomes the outcome of the first step
AgentAccessErrorNeverSurfaces ==
  mode = "first" => agg.reason # "agentaccess"

\* sub occurs in text as a run of consecutive units
Contains(text, sub) ==
  \E i \in 0..(Len(text) - Len(sub)) : SubSeq(text, i + 1, i + Len(sub)) = sub

\* a step of the law aggregate transcoder on a terminal record that is not
\* incremental and whose parts carry the text accumulated so far keeps that text
TerminalKeepsReceivedText ==
  (mode = "law" /\ Len(events') = Len(events) + 1
     /\ IsTerminal(events'[Len(events')])
     /\ events'[Len(events')].incremental = FALSE
     /\ agg.promise = "pending"
     /\ agg.data.content # <<>>
     /\ Contains(PartsText(events'[Len(events')].contents), agg.data.content)) =>
    Contains(agg'.data.content, agg.data.content)

\* C38: in law and solve aggregate mode processing the terminal event never
\* loses text already received: text accumulated before a terminal event with
\* incremental=false whose parts carry that text is still contained in the
\* final content, also when none of the parts is marked finished.
C38_LawTerminalKeepsText ==
  [][TerminalKeepsReceivedText]_vars

\* the text is kept when every text part of the terminal record is finished
\* and assistant-role
TerminalKeepsTextOfFinishedParts ==
  [][(Len(events') = Len(events) + 1 /\
      \A k \in 1..Len(events'[Len(events')].contents) :
        LET part == events'[Len(events')].contents[k]
        IN part.status = "finished" /\ part.role = "assistant" /\ part.contentType = "text")
      => TerminalKeepsReceivedText]_vars

\* the stop chunks written to the output stream, by position
StopCalls == {i \in 1..Len(trans.ts.calls) : trans.ts.calls[i].finish = "stop"}

\* the failures the inner function of createDigitalPeopleCompletionStream
\* catches
InBandFailures ==
  {"connect", "request", "transport", "missing"} \cup SubmitFailures \cup PollFailures

\* the output of a reported failure: one stop chunk, the failure chunk with
\* the message of the error, then the sentinel, accepted, as the last write
FailureReported ==
  LET calls == trans.ts.calls
      n == Len(calls)
  IN /\ n >= 3
     /\ calls[n] = DoneFrame
     /\ StopCalls = {n - 1}
     /\ \E err \in InBandFailures : calls[n - 1] = FailureFrame(err)
     /\ sessions[Attempt].opened = FALSE => calls[n - 1] = FailureFrame("connect")
     /\ agg.promise = "rejected" => calls[n - 1] = FailureFrame(agg.reason)
     /\ poller # NoPoller => poller.pc = "thrown" /\ calls[n - 1].content[2] \in PollFailures
     /\ trans.ts.ended /\ ~trans.ts.errored

\* no write follows the sentinel
SentinelLast ==
  \A i \in 1..Len(trans.ts.calls) :
    trans.ts.calls[i].kind = "done" => i = Len(trans.ts.calls)

\* once the output stream exists no retry is started
NoRetryOnceStreamExists ==
  trans # NoTrans =>
    /\ retryCount' = retryCount /\ trace' = trace /\ waited' = waited
    /\ pc' \notin {"sleep", "upload", "failed"}
    /\ thrown' = thrown /\ result' = "stream"

\* a closed output stream receives no call
ClosedStreamUntouched ==
  (trans # NoTrans /\ trans.ts.closed) => trans'.ts.calls = trans.ts.calls

\* what holds of every run of createDigitalPeopleCompletionStream beside the
\* report of a failure: nothing is written after the sentinel, at most one
\* stop chunk is written, and after a success it is the chunk with the usage
OneEndOfOutput ==
  /\ SentinelLast
  /\ Cardinality(StopCalls) <= 1
  /\ pc = "finished" => \A i \in StopCalls : trans.ts.calls[i].usage

\* C39: in createDigitalPeopleCompletionStream every failure after the output
\* stream was created (connect, request, first step, task submission, polling)
\* is reported in the stream, whether or not the caller has closed it: exactly
\* one stop chunk carrying the error, then the sentinel as the last write; no
\* retry is started, nothing is written after the sentinel, and no run writes
\* both the final chunk of a success and the chunk of a failure
C39_EveryFailureReportedInBand ==
  /\ [](mode = "dp" => (pc = "reported" => FailureReported) /\ OneEndOfOutput)
  /\ [][NoRetryOnceStreamExists]_vars

\* C39 (amended): as above while the caller has not closed the output stream;
\* once it is closed nothing more is written to it and the failure is only
\* logged
C39_FailureReportedInBand ==
  /\ [](mode = "dp" =>
          /\ (pc = "reported" /\ ~trans.ts.byCaller) => FailureReported
          /\ OneEndOfOutput)
  /\ [][NoRetryOnceStreamExists /\ ClosedStreamUntouched]_vars

\* C39 witness: the polling failed after two progress messages in an attempt
\* that followed a failed upload, and the failure chunk and the sentinel
\* were written
C39_Witness ==
  /\ mode = "dp" /\ pc = "reported" /\ ~trans.ts.byCaller
  /\ retryCount = 1
  /\ poller # NoPoller /\ poller.progress = 2
  /\ trans.ts.calls[Len(trans.ts.calls) - 1] = FailureFrame("timeout")
  /\ trans.ts.calls[Len(trans.ts.calls)] = DoneFrame

====
